---- MODULE Spec2Model ----
(***************************************************************************)
(* Model of the streaming orchestration core of task-rag:                  *)
(*   app/ws.py            WebSocketManager, websocket_endpoint             *)
(*   app/routes/chat.py   POST /chat, DELETE /chat/sessions/{id}           *)
(*   app/graph/graph.py   should_continue, build_graph                     *)
(*   app/graph/nodes.py   call_llm, take_action                            *)
(*   app/graph/tools.py   TOOLS                                            *)
(* and of its task service:                                                *)
(*   app/services/task_service.py   TaskService                            *)
(*   app/models/task.py             Task, TaskStatus                       *)
(* and of the client the Telegram bot is to the websocket:                 *)
(*   app/services/telegram_service.py   _handle_websocket_streaming        *)
(*                                                                         *)
(* Every coroutine is cut at its suspension points (await of a socket      *)
(* send / receive, of a graph step, of the execution task); the code       *)
(* between two suspension points is one atomic action, as it is under      *)
(* the single-threaded asyncio event loop.  The callers of the TaskService *)
(* are threads; a call is cut where it enters "with self._lock".           *)
(***************************************************************************)
EXTENDS Integers, Sequences, FiniteSets, TLC

(***************************************************************************)
(* Bounds of the model (not program constants).                            *)
(***************************************************************************)
\* number of REASON steps of a behaviour in which the language model asks for tools
MaxRounds == 1

\* number of disruptions in a behaviour: a client that goes away, a client
\* frame that is no JSON object, a DELETE request, a failed model call
MaxFaults == 1

\* the websocket connections a behaviour opens
Conns == {1, 2}
\* session ids that uuid4 hands out to chat()
SessionIds == {"s1", "s2"}
\* the senders of frames: the run and the endpoint of each connection
Senders == {"run", "ep"} \X Conns
\* "no websocket registered" / "no task"
None == 0

\* task ids that uuid4 hands out to Task()
MaxTasks == 2

\* the latest value of the clock
MaxClock == 1

\* ping frames a client sends on one connection
MaxPings == 1

\* request bodies of POST /chat
UserTexts == {"", "  ", " List my pending tasks "}

(***************************************************************************)
(* State.                                                                  *)
(***************************************************************************)
VARIABLES
    sessions,            \* keys of WebSocketManager.sessions
    session_data,        \* the dict object prepare_session built for an id
    active_connections,  \* WebSocketManager.active_connections
    ws,                  \* state of each websocket: new / open / dropped / closed
    ep_pc,               \* position of each websocket_endpoint coroutine
    ep_sid,              \* its session_id query parameter
    ep_exit,             \* the path on which it left the receive loop
    task_pc,             \* position of the execution task the endpoint created
    messages,            \* the graph state (messages channel) of each run
    final_state,         \* execute_graph's local final_state (<<>> is None)
    rounds,              \* tool rounds the language model has asked for
    calls,               \* language-model calls and tool invocations begun
    tasks,               \* the task store behind task_create_tool
    log,                 \* per sender: every frame it handed to send_message
    cleaned,             \* ids for which cleanup_session deleted a running session
    deletes,             \* per id: the replies of DELETE /chat/sessions/{id}
    cleanup_pc,          \* per id: position of a cleanup_session in flight
    posted,              \* per id: the request and reply of the POST /chat that drew it
    pings,               \* per connection: ping frames its endpoint has received
    faults,              \* disruptions so far
    bot,                 \* per connection: the bot's streaming consumer
    svc_tasks,           \* TaskService._tasks, in insertion order
    svc_lock,            \* TaskService._lock: the thread that holds it, or None
    thr,                 \* the threads that call the TaskService
    svc_ids,             \* task ids that uuid4 has handed out
    now                  \* the clock read by datetime.utcnow()

vars == <<sessions, session_data, active_connections, ws, ep_pc, ep_sid,
          ep_exit, task_pc, messages, final_state, rounds, calls, tasks,
          log, cleaned, deletes, cleanup_pc, posted, pings, faults, bot,
          svc_tasks, svc_lock, thr, svc_ids, now>>

\* the state of the TaskService and of its callers
svc_vars == <<svc_tasks, svc_lock, thr, svc_ids, now>>

\* the state of the streaming core
core_vars == <<sessions, session_data, active_connections, ws, ep_pc, ep_sid,
               ep_exit, task_pc, messages, final_state, rounds, calls, tasks,
               log, cleaned, deletes, cleanup_pc, posted, pings, faults, bot>>

(***************************************************************************)
(* Strings: str.strip() as used by chat().                                 *)
(***************************************************************************)
\* F applied to the value of v: v is computed once, as the value of a
\* local variable is
Then(v, F(_)) == CHOOSE r \in {F(x) : x \in {v}} : TRUE

RECURSIVE LStrip(_)
LStrip(str) ==
    Then(str, LAMBDA s :
        IF Len(s) > 0 /\ SubSeq(s, 1, 1) = " " THEN LStrip(SubSeq(s, 2, Len(s))) ELSE s)

RECURSIVE RStrip(_)
RStrip(str) ==
    Then(str, LAMBDA s :
        IF Len(s) > 0 /\ SubSeq(s, Len(s), Len(s)) = " "
        THEN RStrip(SubSeq(s, 1, Len(s) - 1)) ELSE s)

Strip(s) == RStrip(LStrip(s))

(***************************************************************************)
(* Messages.                                                               *)
(***************************************************************************)
HumanMessage(text) ==
    [type |-> "HumanMessage", content |-> text, tool_calls |-> <<>>, tool_call_id |-> 0]

AIMessage(text, tcs) ==
    [type |-> "AIMessage", content |-> text, tool_calls |-> tcs, tool_call_id |-> 0]

ToolMessage(text, id) ==
    [type |-> "ToolMessage", content |-> text, tool_calls |-> <<>>, tool_call_id |-> id]

\* tools.py TOOLS: the names the registry resolves
TOOLS == {"retriever_tool", "task_create_tool", "task_update_tool", "task_list_tool"}

(***************************************************************************)
(* Tools (tools.py) and the ACT node (nodes.py take_action).               *)
(* A tool invocation is [name, id, valid, text]: valid says whether the    *)
(* arguments pass the tool's argument schema; tool.invoke raises on        *)
(* arguments that do not, before the tool body runs.  The tool bodies      *)
(* catch every exception themselves and return an error text.              *)
(***************************************************************************)
ToolCall(name, id, valid, text) ==
    [name |-> name, id |-> id, valid |-> valid, text |-> text]

\* text.strip().split('.')[0].strip()
RECURSIVE FirstSentence(_)
FirstSentence(str) ==
    Then(str, LAMBDA s :
        IF Len(s) = 0 \/ SubSeq(s, 1, 1) = "." THEN ""
        ELSE SubSeq(s, 1, 1) \o FirstSentence(SubSeq(s, 2, Len(s))))

\* task_create_tool: [result, store] for arguments that passed validation
task_create_tool(text, store) ==
    Then(Strip(FirstSentence(Strip(text))), LAMBDA title :
        IF title = ""
        THEN [result |-> "Error: Cannot create task with empty title.", store |-> store]
        ELSE [result |-> "Task created successfully! Title: " \o title,
              store  |-> Append(store, [title |-> title, status |-> "pending"])])

\* task_list_tool without a status filter
task_list_tool(store) ==
    IF Len(store) = 0
    THEN [result |-> "No tasks found.", store |-> store]
    ELSE [result |-> "Tasks: " \o store[1].title, store |-> store]

\* tool_func.invoke(tool_args): raised is TRUE when invoke raises
InvokeTool(tc, store) ==
    IF ~tc.valid
    THEN [raised |-> TRUE, result |-> "validation error", store |-> store]
    ELSE IF tc.name = "task_create_tool"
    THEN [raised |-> FALSE] @@ task_create_tool(tc.text, store)
    ELSE IF tc.name = "task_list_tool"
    THEN [raised |-> FALSE] @@ task_list_tool(store)
    ELSE [raised |-> FALSE, result |-> "ok", store |-> store]

\* an iteration that lets the exception of tool_func.invoke escape
ToolCallOutcome_Propagate(tc, store) ==
    IF tc.name \notin TOOLS
    THEN [result |-> "Error: Tool '" \o tc.name \o "' not found",
          store |-> store, aborted |-> FALSE]
    ELSE LET r == InvokeTool(tc, store) IN
         [result |-> r.result, store |-> r.store, aborted |-> r.raised]

\* an iteration that raises for a tool the registry does not hold
ToolCallOutcome_UnknownRaises(tc, store) ==
    IF tc.name \notin TOOLS
    THEN [result |-> "unknown tool", store |-> store, aborted |-> TRUE]
    ELSE LET r == InvokeTool(tc, store) IN
         IF r.raised
         THEN [result |-> "Error executing " \o tc.name \o ": " \o r.result,
               store |-> r.store, aborted |-> FALSE]
         ELSE [result |-> r.result, store |-> r.store, aborted |-> FALSE]

\* one iteration of the loop of take_action, lines 118-145
ToolCallOutcome(tc, store) ==
    IF tc.name \notin TOOLS
    THEN [result |-> "Error: Tool '" \o tc.name \o "' not found",
          store |-> store, aborted |-> FALSE]
    ELSE LET r == InvokeTool(tc, store) IN
         IF r.raised
         THEN [result |-> "Error executing " \o tc.name \o ": " \o r.result,
               store |-> r.store, aborted |-> FALSE]
         ELSE [result |-> r.result, store |-> r.store, aborted |-> FALSE]

\* the loop of take_action over tool_calls[k..]: the tool messages it
\* appends, the task store it leaves, and whether an exception escaped
RECURSIVE RunToolCalls(_, _, _)
RunToolCalls(tcs, k, store) ==
    IF k > Len(tcs)
    THEN [messages |-> <<>>, store |-> store, raised |-> FALSE]
    ELSE Then(ToolCallOutcome(tcs[k], store), LAMBDA o :
         IF o.aborted
         THEN [messages |-> <<>>, store |-> o.store, raised |-> TRUE]
         ELSE Then(RunToolCalls(tcs, k + 1, o.store), LAMBDA rest :
              [messages |-> <<ToolMessage(o.result, tcs[k].id)>> \o rest.messages,
               store    |-> rest.store,
               raised   |-> rest.raised]))

\* a take_action that returns its tool messages in reverse order
take_action_Reversed(msgs, store) ==
    LET last_message == msgs[Len(msgs)]
        r == RunToolCalls(last_message.tool_calls, 1, store)
    IN [r EXCEPT !.messages = [k \in 1..Len(@) |-> @[Len(@) + 1 - k]]]

take_action(msgs, store) ==
    LET last_message == msgs[Len(msgs)] IN
    IF last_message.type # "AIMessage" \/ last_message.tool_calls = <<>>
    THEN [messages |-> <<>>, store |-> store, raised |-> FALSE]
    ELSE RunToolCalls(last_message.tool_calls, 1, store)

\* a router that ends the run whatever the model asked for
should_continue_AlwaysEnds(msgs) == "__end__"

\* graph.py should_continue
should_continue(msgs) ==
    IF Len(msgs) > 0 /\ msgs[Len(msgs)].type = "AIMessage"
       /\ msgs[Len(msgs)].tool_calls # <<>>
    THEN "retriever_agent"
    ELSE "__end__"

(***************************************************************************)
(* The language model (external): what llm_with_tools.invoke may return    *)
(* in one REASON step.  "raise" stands for a failed call.                  *)
(***************************************************************************)
\* tool invocations the model may ask for in round r (ids unique per run):
\* a valid call, a call with invalid arguments, a tool that is not
\* registered, and two valid calls after them
ToolTurns(r) ==
    { <<ToolCall("task_create_tool", 10 * r + 1, TRUE, "Write report. Due Friday"),
        ToolCall("task_create_tool", 10 * r + 2, FALSE, ""),
        ToolCall("doc_search",       10 * r + 3, TRUE, "report"),
        ToolCall("task_create_tool", 10 * r + 4, TRUE, " Review notes "),
        ToolCall("task_list_tool",   10 * r + 5, TRUE, "")>> }

\* r: tool rounds of this run so far; may_ask: whether the model may ask
\* for tools once more (the rounds of the behaviour are not used up, or the
\* run is at its last step before the recursion limit)
LLMResponses(r, may_ask) ==
    {AIMessage("You have one task: Write report", <<>>)}
    \cup (IF may_ask THEN {AIMessage("", t) : t \in ToolTurns(r + 1)} ELSE {})

(***************************************************************************)
(* WebSocketManager (ws.py).  The operators below take and return the      *)
(* part of the state a manager call can change:                            *)
(*   m.ac  active_connections      m.ss  keys of sessions                  *)
(*   m.lg  log                     m.tp  task_pc                           *)
(*   m.ws  ws                                                              *)
(***************************************************************************)
Manager ==
    [ac |-> active_connections, ss |-> sessions, lg |-> log, tp |-> task_pc, ws |-> ws]

\* the keys a session dict ever holds: prepare_session lines 136-141 and
\* execute_graph lines 172-173.  No code stores a 'task' key.
SessionDataKeys ==
    {"initial_state", "graph", "status", "created_at", "token_callback", "event_callback"}

TaskDone(pc) == pc \in {"done", "cancelled"}

\* asyncio Task.cancel(): CancelledError is thrown into the task at the
\* await it is suspended on; execute_graph catches only Exception, so the
\* task ends there without running any further statement.
CancelTask(pc) == IF TaskDone(pc) \/ pc = "none" THEN pc ELSE "cancelled"

\* 'task' in session_data and not session_data['task'].done(): cancel
CancelSessionTask(m, sid) ==
    IF "task" \in SessionDataKeys
    THEN [m EXCEPT !.tp = [c \in Conns |->
                              IF ep_sid[c] = sid THEN CancelTask(m.tp[c]) ELSE m.tp[c]]]
    ELSE m

\* WebSocketManager.disconnect
disconnect(m, sid) ==
    LET m1 == [m EXCEPT !.ac[sid] = None] IN
    IF sid \in m1.ss
    THEN [CancelSessionTask(m1, sid) EXCEPT !.ss = @ \ {sid}]
    ELSE m1

Frame(by, src, kind, content, msgs) ==
    [by |-> by, src |-> src, kind |-> kind, content |-> content, messages |-> msgs]

\* a send_message that, finding no websocket registered, registers the
\* sender's own
send_message_Reattaches(m, sid, frame) ==
    LET to == m.ac[sid] IN
    IF to = None
    THEN [m EXCEPT !.lg[<<frame.by, frame.src>>] =
                        Append(@, frame @@ [sid |-> sid, to |-> None, ok |-> FALSE]),
                   !.ac[sid] = frame.src]
    ELSE IF m.ws[to] = "open"
    THEN [m EXCEPT !.lg[<<frame.by, frame.src>>] =
                        Append(@, frame @@ [sid |-> sid, to |-> to, ok |-> TRUE])]
    ELSE disconnect([m EXCEPT !.lg[<<frame.by, frame.src>>] =
                                 Append(@, frame @@ [sid |-> sid, to |-> to, ok |-> FALSE])],
                    sid)

\* WebSocketManager.send_message.  The log keeps every frame handed to it:
\* to = None when no websocket is registered (the frame is dropped),
\* ok = FALSE when send_text raised.
send_message(m, sid, frame) ==
    LET to == m.ac[sid] IN
    IF to = None
    THEN [m EXCEPT !.lg[<<frame.by, frame.src>>] =
                        Append(@, frame @@ [sid |-> sid, to |-> None, ok |-> FALSE])]
    ELSE IF m.ws[to] = "open"
    THEN [m EXCEPT !.lg[<<frame.by, frame.src>>] =
                        Append(@, frame @@ [sid |-> sid, to |-> to, ok |-> TRUE])]
    ELSE disconnect([m EXCEPT !.lg[<<frame.by, frame.src>>] =
                                 Append(@, frame @@ [sid |-> sid, to |-> to, ok |-> FALSE])],
                    sid)

broadcast_event(m, sid, by, src, event_type, msgs) ==
    send_message(m, sid, Frame(by, src, event_type, "", msgs))

broadcast_final_result(m, sid, src, content) ==
    send_message(m, sid, Frame("run", src, "final_result", content, <<>>))

broadcast_error(m, sid, by, src, error) ==
    send_message(m, sid, Frame(by, src, "error", error, <<>>))

\* a status lookup that finds every id
get_session_status_AlwaysFound(sid) ==
    [found |-> TRUE, status |-> session_data[sid].status,
     connected |-> active_connections[sid] # None]

\* WebSocketManager.get_session_status; None when the id is not in the store
get_session_status(sid) ==
    IF sid \notin sessions
    THEN [found |-> FALSE, status |-> "none", connected |-> FALSE]
    ELSE [found |-> TRUE, status |-> session_data[sid].status,
          connected |-> active_connections[sid] # None]

(***************************************************************************)
(* Requests and replies of POST /chat (schemas.py).                        *)
(***************************************************************************)
\* schemas.py UserMessage: the constraint on the field message
UserMessage(text) == Len(text) >= 1 /\ Len(text) <= 4000

\* schemas.py ChatResponse(**kwargs): message_id and session_id are
\* required, status has a default, and a keyword the model does not declare
\* is ignored.  valid = FALSE stands for the ValidationError of the
\* constructor.
ChatResponse(kwargs) ==
    IF {"message_id", "session_id"} \subseteq DOMAIN kwargs
    THEN [valid |-> TRUE, session_id |-> kwargs.session_id,
          status |-> IF "status" \in DOMAIN kwargs THEN kwargs.status ELSE "processing"]
    ELSE [valid |-> FALSE, session_id |-> "", status |-> ""]

\* what the client of POST /chat sent and got: the status code and, of a
\* 200 body, session_id and status
HTTPReply(text, code, session_id, status) ==
    [text |-> text, code |-> code, session_id |-> session_id, status |-> status]

(***************************************************************************)
(* TaskService (services/task_service.py) and Task (models/task.py).       *)
(* The service is called from threads; a call is cut where it takes the    *)
(* lock: the step that enters "with self._lock" and the step that runs the *)
(* body and leaves it.  A thread that finds the lock taken waits, which    *)
(* the model shows as the entering step not being enabled.                 *)
(***************************************************************************)
\* the threads that call the service
Threads == {1, 2}

\* models/task.py TaskStatus (use_enum_values: a task holds the value)
TaskStatus == {"pending", "in_progress", "completed", "cancelled"}

\* None as the value of an Optional[str] or Optional[TaskStatus] argument
\* or field; no text of the model equals it
NoStr == "<None>"

\* arguments of the calls: titles, descriptions and statuses as the caller
\* passes them, and task ids, stored or not
Titles == {"", "  ", " a ", "b"}
TaskIds == 1..(MaxTasks + 1)

\* datetime.utcnow(): the clock does not go back, and two reads may give
\* the same value
ClockReads(n) == {c \in {n, n + 1} : c <= MaxClock}

\* models/task.py Task(title=..., description=...): the constraint on title
\* (a violation raises ValidationError, a ValueError)
TaskValid(title) == Len(title) >= 1 /\ Len(title) <= 200

\* Task(...) with the defaults of its fields: id from uuid4, status
\* PENDING, created_at and updated_at each from its own read of the clock
Task(id, title, description, created_at, updated_at) ==
    [id |-> id, title |-> title, description |-> description, status |-> "pending",
     created_at |-> created_at, updated_at |-> updated_at]

\* description.strip() if description else None
StripOrNone(description) ==
    IF description = NoStr \/ description = "" THEN NoStr ELSE Strip(description)

\* self._tasks as a dict in insertion order
HasTask(store, id) == \E i \in 1..Len(store) : store[i].id = id
IndexOf(store, id) == CHOOSE i \in 1..Len(store) : store[i].id = id
TaskOf(store, id) == store[IndexOf(store, id)]

\* a pop that leaves the entry in the dict
Pop_KeepsEntry(store, id) == store

\* self._tasks.pop(task_id, None): the dict without the entry
Pop(store, id) == SelectSeq(store, LAMBDA x : x.id # id)

\* a count that ignores its status argument
get_task_count_IgnoresStatus(store, status) == Len(store)

\* sum(1 for task in self._tasks.values() if task.status == status)
RECURSIVE SumMatching(_, _)
SumMatching(store, status) ==
    IF store = <<>> THEN 0
    ELSE (IF Head(store).status = status THEN 1 ELSE 0) + SumMatching(Tail(store), status)

\* get_task_count, lines 211-215, on the store it reads under the lock;
\* status is NoStr for the call without argument
get_task_count(store, status) ==
    IF status = NoStr THEN Len(store) ELSE SumMatching(store, status)

\* get_tasks_by_status, lines 224-229
CountsByStatus(store) ==
    [st \in TaskStatus |-> Cardinality({i \in 1..Len(store) : store[i].status = st})]

\* sorted(self._tasks.values(), key=lambda t: t.created_at): a stable sort,
\* here by insertion behind every element that is not later
InsertByDate(x, sorted) ==
    LET k == Cardinality({i \in 1..Len(sorted) : sorted[i].created_at <= x.created_at})
    IN SubSeq(sorted, 1, k) \o <<x>> \o SubSeq(sorted, k + 1, Len(sorted))

RECURSIVE SortedByDate(_)
SortedByDate(store) ==
    IF store = <<>> THEN <<>>
    ELSE InsertByDate(store[Len(store)], SortedByDate(SubSeq(store, 1, Len(store) - 1)))

\* the entry of the result for oldest_task / newest_task, lines 347-356
TaskSummary(task) == [id |-> task.id, title |-> task.title, created_at |-> task.created_at]

NoSummary == [id |-> None, title |-> NoStr, created_at |-> None]

\* the dict get_statistics returns, lines 327-357 (without completion_rate,
\* a float), given the counts its call of get_tasks_by_status returned
Statistics(store, status_counts) ==
    LET tasks_by_date == SortedByDate(store) IN
    [total_tasks   |-> Len(store),
     status_counts |-> status_counts,
     oldest_task   |-> IF store # <<>> THEN TaskSummary(tasks_by_date[1]) ELSE NoSummary,
     newest_task   |-> IF store # <<>>
                       THEN TaskSummary(tasks_by_date[Len(tasks_by_date)]) ELSE NoSummary]

\* a thread between two calls: what its last call returned or raised
\* (ret: "Task", "None", "True", "False", "ValueError", "counts",
\* "statistics", the result text of a tool; "" before its first call) and
\* the value (val: the id of the returned task, the counts, the statistics)
ThreadIdle(ret, val) ==
    [pc |-> "idle", op |-> "", id |-> None, title |-> NoStr, description |-> NoStr,
     status |-> NoStr, found |-> FALSE, ret |-> ret, val |-> val]

\* a thread inside the "with self._lock" block of operation op
ThreadIn(op, id, title, description, status, found) ==
    [pc |-> "locked", op |-> op, id |-> id, title |-> title, description |-> description,
     status |-> status, found |-> found, ret |-> "", val |-> None]

(***************************************************************************)
(* task_update_tool (graph/tools.py lines 99-136): its arguments.          *)
(***************************************************************************)
UpperCase == "ABCDEFGHIJKLMNOPQRSTUVWXYZ"
LowerCase == "abcdefghijklmnopqrstuvwxyz"

\* str.lower() on one character
LowerChar(ch) ==
    IF \E i \in 1..26 : SubSeq(UpperCase, i, i) = ch
    THEN LET i == CHOOSE i \in 1..26 : SubSeq(UpperCase, i, i) = ch
         IN SubSeq(LowerCase, i, i)
    ELSE ch

\* status.lower(), line 122
RECURSIVE Lower(_)
Lower(str) ==
    Then(str, LAMBDA s : IF s = "" THEN ""
                         ELSE LowerChar(SubSeq(s, 1, 1)) \o Lower(SubSeq(s, 2, Len(s))))

\* str(uuid) of the task id that uuid4 handed out as the id-th
Digits == "123456789"
UUIDText(id) == "uuid-" \o SubSeq(Digits, id, id)

\* UUID(task_id), line 116: the id, or None where it raises ValueError
UUID(text) ==
    IF /\ Len(text) = 6
       /\ SubSeq(text, 1, 5) = "uuid-"
       /\ \E i \in 1..9 : SubSeq(Digits, i, i) = SubSeq(text, 6, 6)
    THEN CHOOSE i \in 1..9 : SubSeq(Digits, i, i) = SubSeq(text, 6, 6)
    ELSE None

\* the task_id and status arguments the language model passes
ToolTaskIds == {UUIDText(1), UUIDText(MaxTasks + 1), "test-id"}
ToolStatuses == {"completed", "COMPLETED", "in_progress", "invalid_status"}

\* the service after __init__, lines 18-22, and its callers
\* the bot's consumer before ws_connect: per sender, the frames it has read
BotIdle == [pc |-> "idle", read |-> [s \in Senders |-> 0], why |-> ""]

InitService ==
    /\ svc_tasks = <<>>
    /\ svc_lock = None
    /\ thr = [t \in Threads |-> ThreadIdle("", None)]
    /\ svc_ids = 0
    /\ now = 0

(***************************************************************************)
(* Initial state: a manager without sessions and connections.              *)
(***************************************************************************)
Init ==
    /\ sessions = {}
    /\ session_data = [s \in SessionIds |-> [status |-> "none", initial_state |-> <<>>]]
    /\ active_connections = [s \in SessionIds |-> None]
    /\ ws = [c \in Conns |-> "new"]
    /\ ep_pc = [c \in Conns |-> "idle"]
    /\ ep_sid = [c \in Conns |-> "s1"]
    /\ ep_exit = [c \in Conns |-> "none"]
    /\ task_pc = [c \in Conns |-> "none"]
    /\ messages = [c \in Conns |-> <<>>]
    /\ final_state = [c \in Conns |-> <<>>]
    /\ rounds = [c \in Conns |-> 0]
    /\ calls = [c \in Conns |-> 0]
    /\ tasks = <<>>
    /\ log = [s \in Senders |-> <<>>]
    /\ cleaned = {}
    /\ deletes = [s \in SessionIds |-> <<>>]
    /\ cleanup_pc = [s \in SessionIds |-> "idle"]
    /\ posted = [s \in SessionIds |-> HTTPReply("", 0, "", "")]
    /\ pings = [c \in Conns |-> 0]
    /\ faults = 0
    /\ bot = [c \in Conns |-> BotIdle]
    /\ InitService

\* one more disruption of the behaviour
Fault ==
    /\ faults < MaxFaults
    /\ faults' = faults + 1

\* assign the manager part of the state from a manager value
SetManager(m) ==
    /\ active_connections' = m.ac
    /\ sessions' = m.ss
    /\ log' = m.lg
    /\ task_pc' = m.tp
    /\ ws' = m.ws

(***************************************************************************)
(* routes/chat.py                                                          *)
(***************************************************************************)
\* a POST /chat that marks the session running at once
chat_StartsRunning(sid, text) ==
    /\ UNCHANGED <<deletes, cleanup_pc, pings, bot, svc_vars>>
    /\ session_data[sid].status = "none"
    /\ sid \notin sessions
    /\ IF ~UserMessage(text)
       THEN /\ posted' = [posted EXCEPT ![sid] = HTTPReply(text, 422, "", "")]
            /\ UNCHANGED <<sessions, session_data>>
       ELSE IF Strip(text) = ""
       THEN /\ posted' = [posted EXCEPT ![sid] = HTTPReply(text, 400, "", "")]
            /\ UNCHANGED <<sessions, session_data>>
       ELSE /\ sessions' = sessions \cup {sid}
            /\ session_data' = [session_data EXCEPT ![sid] =
                                   [status |-> "running",
                                    initial_state |-> <<HumanMessage(Strip(text))>>]]
            /\ LET r == ChatResponse([session_id |-> sid, message |-> "Chat session started.",
                                      status |-> "started"])
               IN posted' = [posted EXCEPT ![sid] =
                                IF r.valid THEN HTTPReply(text, 200, r.session_id, r.status)
                                           ELSE HTTPReply(text, 500, "", "")]
    /\ UNCHANGED <<active_connections, ws, ep_pc, ep_sid, ep_exit, task_pc, messages,
                   final_state, rounds, calls, tasks, log, cleaned, faults>>

\* POST /chat with body {message: text}; sid is the id uuid4 gives, one
\* never stored before.
\*   - a body that fails UserMessage is answered 422 by the application's
\*     RequestValidationError handler (main.py 137-153); chat() does not run;
\*   - lines 47-51: a blank message is answered 400 before prepare_session;
\*   - lines 53-63: prepare_session stores the session;
\*   - lines 67-80: the ChatResponse is built; a ValidationError of its
\*     constructor is caught by except Exception and answered 500, with the
\*     session left in the store.
chat(sid, text) ==
    /\ UNCHANGED <<deletes, cleanup_pc, pings, bot, svc_vars>>
    /\ session_data[sid].status = "none"
    /\ sid \notin sessions
    /\ IF ~UserMessage(text)
       THEN /\ posted' = [posted EXCEPT ![sid] = HTTPReply(text, 422, "", "")]
            /\ UNCHANGED <<sessions, session_data>>
       ELSE IF Strip(text) = ""
       THEN /\ posted' = [posted EXCEPT ![sid] = HTTPReply(text, 400, "", "")]
            /\ UNCHANGED <<sessions, session_data>>
       ELSE /\ sessions' = sessions \cup {sid}
            /\ session_data' = [session_data EXCEPT ![sid] =
                                   [status |-> "prepared",
                                    initial_state |-> <<HumanMessage(Strip(text))>>]]
            /\ LET r == ChatResponse([session_id |-> sid, message |-> "Chat session started.",
                                      status |-> "started"])
               IN posted' = [posted EXCEPT ![sid] =
                                IF r.valid THEN HTTPReply(text, 200, r.session_id, r.status)
                                           ELSE HTTPReply(text, 500, "", "")]
    /\ UNCHANGED <<active_connections, ws, ep_pc, ep_sid, ep_exit, task_pc, messages,
                   final_state, rounds, calls, tasks, log, cleaned, faults>>

\* DELETE /chat/sessions/{id} -> WebSocketManager.cleanup_session for a
\* stored id, up to its only suspension point, await websocket.close()
\* (lines 239-250).  With no socket registered, or one whose close()
\* raises at once, the handler runs through and replies cleaned_up = true.
cleanup_session(sid) ==
    /\ UNCHANGED <<posted, pings, bot, svc_vars>>
    /\ sid \in sessions
    /\ cleanup_pc[sid] = "idle"
    /\ Fault
    /\ LET m1 == CancelSessionTask(Manager, sid)
           to == active_connections[sid]
       IN /\ sessions' = sessions \ {sid}
          /\ task_pc' = m1.tp
          /\ IF to # None /\ ws[to] = "open"
             THEN /\ ws' = [ws EXCEPT ![to] = "closed"]
                  /\ cleanup_pc' = [cleanup_pc EXCEPT ![sid] = "closing"]
                  /\ UNCHANGED <<active_connections, deletes>>
             ELSE /\ active_connections' = [active_connections EXCEPT ![sid] = None]
                  /\ deletes' = [deletes EXCEPT ![sid] = Append(@, "true")]
                  /\ UNCHANGED <<ws, cleanup_pc>>
    /\ cleaned' = IF session_data[sid].status = "running"
                  THEN cleaned \cup {sid} ELSE cleaned
    /\ UNCHANGED <<session_data, ep_pc, ep_sid, ep_exit, messages, final_state,
                   rounds, calls, tasks, log>>

\* the same request for an id that is not stored (lines 236-237): it
\* returns False at once and changes nothing.  The id is one that chat()
\* has handed out; a repeated "false" reply is not recorded again.
cleanup_session_not_found(sid) ==
    /\ UNCHANGED <<posted, pings, bot, svc_vars>>
    /\ session_data[sid].status # "none"
    /\ sid \notin sessions
    /\ cleanup_pc[sid] = "idle"
    /\ IF deletes[sid] = <<>> THEN TRUE ELSE deletes[sid][Len(deletes[sid])] # "false"
    /\ deletes' = [deletes EXCEPT ![sid] = Append(@, "false")]
    /\ UNCHANGED <<sessions, session_data, active_connections, ws, ep_pc, ep_sid, ep_exit,
                   task_pc, messages, final_state, rounds, calls, tasks, log, cleaned,
                   cleanup_pc, faults>>

\* a cleanup_session that leaves the registry entry in place
cleanup_resume_KeepsConnection(sid) ==
    /\ UNCHANGED <<posted, pings, bot, svc_vars>>
    /\ cleanup_pc[sid] = "closing"
    /\ cleanup_pc' = [cleanup_pc EXCEPT ![sid] = "idle"]
    /\ deletes' = [deletes EXCEPT ![sid] =
                       Append(@, IF active_connections[sid] # None THEN "true" ELSE "500")]
    /\ UNCHANGED <<sessions, session_data, active_connections, ws, ep_pc, ep_sid, ep_exit,
                   task_pc, messages, final_state, rounds, calls, tasks, log, cleaned,
                   faults>>

\* cleanup_session after await websocket.close(), line 251:
\* del self.active_connections[session_id] stands outside the try, so it
\* raises KeyError when the entry was removed while close() was awaited;
\* the route turns that into HTTP 500 (chat.py 148-153).
cleanup_resume(sid) ==
    /\ UNCHANGED <<posted, pings, bot, svc_vars>>
    /\ cleanup_pc[sid] = "closing"
    /\ cleanup_pc' = [cleanup_pc EXCEPT ![sid] = "idle"]
    /\ IF active_connections[sid] # None
       THEN /\ active_connections' = [active_connections EXCEPT ![sid] = None]
            /\ deletes' = [deletes EXCEPT ![sid] = Append(@, "true")]
       ELSE /\ deletes' = [deletes EXCEPT ![sid] = Append(@, "500")]
            /\ UNCHANGED active_connections
    /\ UNCHANGED <<sessions, session_data, ws, ep_pc, ep_sid, ep_exit, task_pc, messages,
                   final_state, rounds, calls, tasks, log, cleaned, faults>>

(***************************************************************************)
(* WebSocketManager.execute_graph, one action per stretch of code between  *)
(* two suspension points.  The run created by endpoint c is run c.         *)
(***************************************************************************)
RECURSIVE SumRounds(_, _)
SumRounds(f, S) ==
    IF S = {} THEN 0
    ELSE LET c == CHOOSE x \in S : TRUE IN f[c] + SumRounds(f, S \ {c})

\* supersteps of the graph that run c has completed: every tool round is a
\* step of node llm and a step of node retriever_agent
Steps(c) == IF task_pc[c] = "act" THEN 2 * rounds[c] - 1 ELSE 2 * rounds[c]

\* build_graph compiles the graph without a round limit and execute_graph
\* passes no config to astream: the only limit is the recursion limit of
\* the compiled graph (25 supersteps in LangGraph), after which astream
\* raises GraphRecursionError.  The model scales it to its tool rounds: a
\* run that asks for tools in every REASON step reaches it before the ACT
\* step of round MaxRounds + 1.
RecursionLimit == 2 * MaxRounds + 1

\* a reducer that overwrites the last message
add_messages_ReplacesLast(left, right) ==
    IF left = <<>> THEN right ELSE SubSeq(left, 1, Len(left) - 1) \o right

\* state.py AgentState: the reducer of the messages channel.  add_messages
\* replaces a message of left by a message of right with the same id and
\* appends the others.  Every message a node returns has an id of its own:
\* the response of the model carries the id of its call, and a ToolMessage
\* is built without an id (nodes.py 141-144) and is given a new uuid4 by
\* the reducer.  No returned message meets an id of left, so all are
\* appended, in their order.
add_messages(left, right) == left \o right

\* the task moves on unless a cancellation reached it in this step
Advance(m, c, pc) == [m EXCEPT !.tp[c] = IF @ = "cancelled" THEN @ ELSE pc]

\* dict.get(key, default) on a chunk yielded by graph.astream
StateGet(state, key, default) == IF key \in DOMAIN state THEN state[key] ELSE default

\* the list comprehension of lines 180-186
RenderMessages(msgs) ==
    [i \in 1..Len(msgs) |-> [type |-> msgs[i].type, content |-> msgs[i].content]]

\* A chunk of graph.astream(initial_state).  build_graph compiles the
\* StateGraph without a stream mode and execute_graph passes none, so the
\* compiled graph streams in its default mode, "updates": one dict per
\* step, keyed by the name of the node that ran, holding that node's
\* return value.
StreamChunk(node, update) ==
    IF node = "llm"
    THEN [llm |-> [messages |-> update]]
    ELSE [retriever_agent |-> [messages |-> update]]

\* lines 178-188: broadcast the chunk as state_update
BroadcastStateUpdate(m, sid, c, chunk) ==
    broadcast_event(m, sid, "run", c, "state_update",
                    RenderMessages(StateGet(chunk, "messages", <<>>)))

\* an except clause that marks every session errored
ExecuteGraphExcept_AllSessions(c, cause) ==
    /\ session_data' = [s \in SessionIds |-> [session_data[s] EXCEPT !.status = "error"]]
    /\ SetManager(Advance(broadcast_error(Manager, ep_sid[c], "run", c, cause), c, "done"))

\* lines 203-206: except Exception
ExecuteGraphExcept(c, cause) ==
    /\ session_data' = [session_data EXCEPT ![ep_sid[c]].status = "error"]
    /\ SetManager(Advance(broadcast_error(Manager, ep_sid[c], "run", c, cause), c, "done"))

\* lines 150-158: entry of execute_graph up to the first send
ExecStart(c) ==
    /\ UNCHANGED <<deletes, cleanup_pc, posted, pings, bot, svc_vars>>
    /\ task_pc[c] = "created"
    /\ LET sid == ep_sid[c] IN
       IF sid \notin sessions
       THEN /\ SetManager(Advance(broadcast_error(Manager, sid, "run", c, "Session not found"),
                                  c, "done"))
            /\ UNCHANGED <<session_data, messages>>
       ELSE /\ session_data' = [session_data EXCEPT ![sid].status = "running"]
            /\ messages' = [messages EXCEPT ![c] = session_data[sid].initial_state]
            /\ SetManager(Advance(broadcast_event(Manager, sid, "run", c,
                                                  "execution_started", <<>>), c, "llm"))
    /\ UNCHANGED <<ep_pc, ep_sid, ep_exit, final_state, rounds, calls, tasks, cleaned,
                   faults>>

\* one step of astream in node "llm" (call_llm) and the state_update for it
ExecReason(c) ==
    /\ UNCHANGED <<deletes, cleanup_pc, posted, pings, bot, svc_vars>>
    /\ task_pc[c] = "llm"
    /\ calls' = [calls EXCEPT ![c] = @ + 1]
    /\ \/ /\ Fault
          /\ ExecuteGraphExcept(c, "model call failed")
          /\ UNCHANGED <<messages, final_state, rounds>>
       \/ \E response \in LLMResponses(rounds[c], \/ SumRounds(rounds, Conns) < MaxRounds
                                                     \/ Steps(c) + 1 >= RecursionLimit) :
            LET msgs  == add_messages(messages[c], <<response>>)
                chunk == StreamChunk("llm", <<response>>)
                next  == IF should_continue(msgs) = "retriever_agent" THEN "act" ELSE "final"
            IN /\ messages' = [messages EXCEPT ![c] = msgs]
               /\ final_state' = [final_state EXCEPT ![c] = <<chunk>>]
               /\ rounds' = [rounds EXCEPT ![c] = IF response.tool_calls # <<>>
                                                  THEN @ + 1 ELSE @]
               /\ SetManager(Advance(BroadcastStateUpdate(Manager, ep_sid[c], c, chunk),
                                     c, next))
               /\ UNCHANGED <<session_data, faults>>
    /\ UNCHANGED <<ep_pc, ep_sid, ep_exit, tasks, cleaned>>

\* one step of astream in node "retriever_agent" (take_action) and the
\* state_update for it; the edge retriever_agent -> llm.  At the recursion
\* limit astream raises instead of running the step.
ExecAct(c) ==
    /\ UNCHANGED <<deletes, cleanup_pc, posted, pings, bot, svc_vars>>
    /\ task_pc[c] = "act"
    /\ IF Steps(c) >= RecursionLimit
       THEN /\ ExecuteGraphExcept(c, "Recursion limit reached")
            /\ UNCHANGED <<messages, final_state, tasks, calls>>
       ELSE \E res \in {take_action(messages[c], tasks)} :
            LET chunk == StreamChunk("retriever_agent", res.messages)
            IN /\ tasks' = res.store
               /\ calls' = [calls EXCEPT ![c] =
                                @ + Len(messages[c][Len(messages[c])].tool_calls)]
               /\ IF res.raised
                  THEN /\ ExecuteGraphExcept(c, "tool failed")
                       /\ UNCHANGED <<messages, final_state>>
                  ELSE /\ messages' = [messages EXCEPT ![c] = add_messages(@, res.messages)]
                       /\ final_state' = [final_state EXCEPT ![c] = <<chunk>>]
                       /\ SetManager(Advance(BroadcastStateUpdate(Manager, ep_sid[c], c,
                                                                  chunk), c, "llm"))
                       /\ UNCHANGED session_data
    /\ UNCHANGED <<ep_pc, ep_sid, ep_exit, rounds, cleaned, faults>>

\* lines 190-201: after the stream ended
ExecFinish(c) ==
    /\ UNCHANGED <<deletes, cleanup_pc, posted, pings, bot, svc_vars>>
    /\ task_pc[c] = "final"
    /\ LET sid == ep_sid[c]
           final_messages == IF final_state[c] # <<>>
                             THEN StateGet(final_state[c][1], "messages", <<>>)
                             ELSE <<>>
           m1 == IF final_messages # <<>>
                 THEN broadcast_final_result(Manager, sid, c,
                                             final_messages[Len(final_messages)].content)
                 ELSE Manager
       IN /\ session_data' = [session_data EXCEPT ![sid].status = "completed"]
          /\ SetManager(Advance(broadcast_event(m1, sid, "run", c,
                                                "execution_completed", <<>>), c, "done"))
    /\ UNCHANGED <<ep_pc, ep_sid, ep_exit, messages, final_state, rounds, calls,
                   tasks, cleaned, faults>>

(***************************************************************************)
(* websocket_endpoint (ws.py lines 277-338) and its client.                *)
(***************************************************************************)
\* lines 290-299: accept and register the socket, look the session up,
\* and either report "Session not found" or create the execution task.
\* Connections are numbered in the order in which they are accepted; a
\* client connects with an id that chat() has stored.
Connect(c, sid) ==
    /\ UNCHANGED <<deletes, cleanup_pc, posted, pings, bot, svc_vars>>
    /\ ep_pc[c] = "idle"
    /\ session_data[sid].status # "none"
    /\ \A d \in Conns : d < c => ep_pc[d] # "idle"
    /\ ep_sid' = [ep_sid EXCEPT ![c] = sid]
    /\ LET m0 == [Manager EXCEPT !.ws[c] = "open", !.ac[sid] = c] IN
       IF ~get_session_status(sid).found
       THEN /\ SetManager(broadcast_error(m0, sid, "ep", c, "Session not found"))
            /\ ep_pc' = [ep_pc EXCEPT ![c] = "finally"]
            /\ ep_exit' = [ep_exit EXCEPT ![c] = "not_found"]
       ELSE /\ SetManager([m0 EXCEPT !.tp[c] = "created"])
            /\ ep_pc' = [ep_pc EXCEPT ![c] = "receive"]
            /\ UNCHANGED ep_exit
    /\ UNCHANGED <<session_data, messages, final_state, rounds, calls, tasks, cleaned,
                   faults>>

\* the client goes away
ClientDrop(c) ==
    /\ UNCHANGED <<deletes, cleanup_pc, posted, pings, bot, svc_vars>>
    /\ ws[c] = "open"
    /\ Fault
    /\ ws' = [ws EXCEPT ![c] = "dropped"]
    /\ UNCHANGED <<sessions, session_data, active_connections, ep_pc, ep_sid, ep_exit,
                   task_pc, messages, final_state, rounds, calls, tasks, log, cleaned>>

\* lines 322-331: receive_text raises WebSocketDisconnect; the endpoint
\* cancels its execution task and awaits it, or, when the task is done,
\* falls through to the finally clause at once
ReceiveDisconnect(c) ==
    /\ UNCHANGED <<deletes, cleanup_pc, posted, pings, bot, svc_vars>>
    /\ ep_pc[c] = "receive"
    /\ ws[c] \in {"dropped", "closed"}
    /\ ep_exit' = [ep_exit EXCEPT ![c] = "disconnect"]
    /\ IF ~TaskDone(task_pc[c])
       THEN /\ task_pc' = [task_pc EXCEPT ![c] = CancelTask(@)]
            /\ ep_pc' = [ep_pc EXCEPT ![c] = "await_task"]
            /\ UNCHANGED <<sessions, active_connections, log, ws>>
       ELSE /\ SetManager(disconnect(Manager, ep_sid[c]))
            /\ ep_pc' = [ep_pc EXCEPT ![c] = "done"]
    /\ UNCHANGED <<session_data, ep_sid, messages, final_state, rounds, calls, tasks, cleaned,
                   faults>>

\* lines 306-313 and 333-335: the client sends a frame that is valid JSON
\* but not an object; message.get raises AttributeError, which only the
\* outer handler catches.  The execution task is left alone.
ClientBadFrame(c) ==
    /\ UNCHANGED <<deletes, cleanup_pc, posted, pings, bot, svc_vars>>
    /\ ep_pc[c] = "receive"
    /\ ws[c] = "open"
    /\ Fault
    /\ SetManager(broadcast_error(Manager, ep_sid[c], "ep", c, "WebSocket error"))
    /\ ep_pc' = [ep_pc EXCEPT ![c] = "finally"]
    /\ ep_exit' = [ep_exit EXCEPT ![c] = "error"]
    /\ UNCHANGED <<session_data, ep_sid, messages, final_state, rounds, calls, tasks, cleaned>>

\* an endpoint that reads a ping and sends nothing
ClientPing_Ignored(c) ==
    /\ UNCHANGED <<deletes, cleanup_pc, posted, bot, svc_vars>>
    /\ ep_pc[c] = "receive"
    /\ ws[c] \in {"open", "dropped"}
    /\ pings[c] < MaxPings
    /\ pings' = [pings EXCEPT ![c] = @ + 1]
    /\ UNCHANGED <<sessions, active_connections, log, task_pc, ws>>
    /\ UNCHANGED <<session_data, ep_pc, ep_sid, ep_exit, messages, final_state, rounds, calls,
                   tasks, cleaned, faults>>

\* lines 306-313: receive_text returns a frame {"type": "ping"} and the
\* endpoint answers through send_message, that is, on the socket registered
\* under its session id.  The frame may be one the client sent before it
\* went away.  A receive that times out, and a frame that is no JSON or of
\* another type, change nothing (lines 315-320) and are not steps of the
\* model.
ClientPing(c) ==
    /\ UNCHANGED <<deletes, cleanup_pc, posted, bot, svc_vars>>
    /\ ep_pc[c] = "receive"
    /\ ws[c] \in {"open", "dropped"}
    /\ pings[c] < MaxPings
    /\ pings' = [pings EXCEPT ![c] = @ + 1]
    /\ SetManager(send_message(Manager, ep_sid[c], Frame("ep", c, "pong", "", <<>>)))
    /\ UNCHANGED <<session_data, ep_pc, ep_sid, ep_exit, messages, final_state, rounds, calls,
                   tasks, cleaned, faults>>

\* lines 329 and 337-338: the awaited task has ended (when one is awaited)
\* and the finally clause runs manager.disconnect
EndpointFinally(c) ==
    /\ UNCHANGED <<deletes, cleanup_pc, posted, pings, bot, svc_vars>>
    /\ ep_pc[c] \in {"await_task", "finally"}
    /\ ep_pc[c] = "await_task" => TaskDone(task_pc[c])
    /\ SetManager(disconnect(Manager, ep_sid[c]))
    /\ ep_pc' = [ep_pc EXCEPT ![c] = "done"]
    /\ UNCHANGED <<session_data, ep_sid, ep_exit, messages, final_state, rounds, calls,
                   tasks, cleaned, faults>>

(***************************************************************************)
(* TelegramService._handle_websocket_streaming (telegram_service.py lines  *)
(* 293-401): the bot as the client of connection c.  It sends no frame,    *)
(* sets no timeout and no heartbeat on the socket, and reads until a frame *)
(* or the end of the stream makes it stop.                                 *)
(***************************************************************************)
\* the "type" member of a frame on the wire (ws.py lines 77-81, 91-100,
\* 109-113, 122-126, 313): every event travels as type "event" and
\* carries its name in "event_type"
WireType(f) == IF f.kind \in {"final_result", "error", "pong", "token"}
               THEN f.kind ELSE "event"

\* the frames of sender s that send_text has put on socket c, in order
Arrived(c, s) == SelectSeq(log[s], LAMBDA f : f.to = c /\ f.ok)

\* the senders the bot has not read to the end.  Frames of one sender
\* arrive in the order sent; with the bot as client only the execution
\* task sends (the bot sends no ping and no bad frame).
Unread(c) == {s \in Senders : bot[c].read[s] < Len(Arrived(c, s))}

\* line 318: session.ws_connect returns once the server has accepted the
\* socket
ws_connect(c) ==
    /\ bot[c].pc = "idle"
    /\ ep_pc[c] # "idle"
    /\ bot' = [bot EXCEPT ![c].pc = "receive"]
    /\ UNCHANGED <<sessions, session_data, active_connections, ws, ep_pc, ep_sid,
                   ep_exit, task_pc, messages, final_state, rounds, calls, tasks,
                   log, cleaned, deletes, cleanup_pc, posted, pings, faults, svc_vars>>

\* lines 320-388: one turn of "async for msg in ws".  A TEXT frame of type
\* final_result or error ends the loop (lines 361, 371); a token, an event
\* and any other type are handled and the loop goes on.  The iteration
\* ends by itself only when the socket is closed (aiohttp stops the
\* iterator on CLOSE, CLOSING and CLOSED), after the frames that arrived
\* before have been read.  Leaving the loop leaves both "async with"
\* blocks, which closes the client's end of the socket.
BotReceive(c) ==
    /\ bot[c].pc = "receive"
    /\ IF Unread(c) # {}
       THEN \E s \in Unread(c) :
              LET f      == Arrived(c, s)[bot[c].read[s] + 1]
                  leaves == WireType(f) \in {"final_result", "error"}
              IN /\ bot' = [bot EXCEPT ![c].read[s] = @ + 1,
                                       ![c].pc = IF leaves THEN "left" ELSE @,
                                       ![c].why = IF leaves THEN WireType(f) ELSE @]
                 /\ ws' = IF leaves /\ ws[c] = "open"
                          THEN [ws EXCEPT ![c] = "dropped"] ELSE ws
       ELSE /\ ws[c] \in {"closed", "dropped"}
            /\ bot' = [bot EXCEPT ![c].pc = "left", ![c].why = "closed"]
            /\ UNCHANGED ws
    /\ UNCHANGED <<sessions, session_data, active_connections, ep_pc, ep_sid,
                   ep_exit, task_pc, messages, final_state, rounds, calls, tasks,
                   log, cleaned, deletes, cleanup_pc, posted, pings, faults, svc_vars>>

(***************************************************************************)
(* TaskService: the calls.                                                 *)
(***************************************************************************)
\* a lock that lets every thread in
LockFree_Always(t) == TRUE

\* threading.Lock (line 21): acquire goes through when no thread holds the
\* lock, the caller included
LockFree(t) == svc_lock = None

\* entering "with self._lock"
Acquire(t) == LockFree(t) /\ svc_lock' = t

\* leaving it, by return or by an exception
Release == svc_lock' = None

\* a create_task without the check of lines 37-38 and without the
\* validation of Task: a blank title is stored as it is
create_task_BlankStored(t, title, description) ==
    /\ thr[t].pc = "idle"
    /\ IF title = "" \/ Strip(title) = ""
       THEN /\ svc_ids < MaxTasks
            /\ LockFree(t)
            /\ svc_tasks' = Append(svc_tasks, Task(svc_ids + 1, Strip(title),
                                                   StripOrNone(description), now, now))
            /\ svc_ids' = svc_ids + 1
            /\ thr' = [thr EXCEPT ![t] = ThreadIdle("Task", svc_ids + 1)]
            /\ UNCHANGED svc_lock
       ELSE /\ svc_ids < MaxTasks
            /\ Acquire(t)
            /\ thr' = [thr EXCEPT ![t] =
                          ThreadIn("create_task", None, title, description, NoStr, FALSE)]
            /\ UNCHANGED <<svc_tasks, svc_ids>>
    /\ UNCHANGED <<now, core_vars>>

\* create_task, lines 37-40: the title check, then the lock
create_task(t, title, description) ==
    /\ thr[t].pc = "idle"
    /\ IF title = "" \/ Strip(title) = ""
       THEN /\ thr' = [thr EXCEPT ![t] = ThreadIdle("ValueError", None)]
            /\ UNCHANGED svc_lock
       ELSE /\ svc_ids < MaxTasks
            /\ Acquire(t)
            /\ thr' = [thr EXCEPT ![t] =
                          ThreadIn("create_task", None, title, description, NoStr, FALSE)]
    /\ UNCHANGED <<svc_tasks, svc_ids, now, core_vars>>

\* create_task, lines 41-49: build the task, store it, return it
create_task_done(t) ==
    /\ thr[t].pc = "locked" /\ thr[t].op = "create_task"
    /\ Release
    /\ LET title == Strip(thr[t].title)
           id == svc_ids + 1
       IN IF ~TaskValid(title)
          THEN /\ thr' = [thr EXCEPT ![t] = ThreadIdle("ValueError", None)]
               /\ UNCHANGED <<svc_tasks, svc_ids, now>>
          ELSE \E c1 \in ClockReads(now) : \E c2 \in ClockReads(c1) :
                  /\ svc_tasks' = Append(svc_tasks,
                                         Task(id, title, StripOrNone(thr[t].description), c1, c2))
                  /\ svc_ids' = id
                  /\ now' = c2
                  /\ thr' = [thr EXCEPT ![t] = ThreadIdle("Task", id)]
    /\ UNCHANGED core_vars

\* get_task, lines 74-80
get_task(t, id) ==
    /\ thr[t].pc = "idle"
    /\ LockFree(t)
    /\ thr' = [thr EXCEPT ![t] = IF HasTask(svc_tasks, id) THEN ThreadIdle("Task", id)
                                                            ELSE ThreadIdle("None", None)]
    /\ UNCHANGED <<svc_tasks, svc_lock, svc_ids, now, core_vars>>

\* an update that writes the description whether it was supplied or not
UpdatedTask_ClearsDescription(task, title, description, status, at) ==
    [task EXCEPT !.title       = IF title # NoStr THEN Strip(title) ELSE @,
                 !.description = IF description # NoStr THEN StripOrNone(description)
                                                        ELSE NoStr,
                 !.status      = IF status # NoStr THEN status ELSE @,
                 !.updated_at  = at]

\* the task object after lines 98-111 of update_task
UpdatedTask(task, title, description, status, at) ==
    [task EXCEPT !.title       = IF title # NoStr THEN Strip(title) ELSE @,
                 !.description = IF description # NoStr THEN StripOrNone(description) ELSE @,
                 !.status      = IF status # NoStr THEN status ELSE @,
                 !.updated_at  = at]

\* the store after a write to the task object that was looked up as id: an
\* object that has been popped in the meantime is no longer in the store
WriteTask(store, id, task) ==
    [i \in 1..Len(store) |-> IF store[i].id = id THEN task ELSE store[i]]

\* update_task, lines 92-114, all of it inside "with self._lock".
\* task_data is a TaskUpdate, whose title is None or not empty; a title of
\* blanks raises in line 101, before the first assignment.
update_task(t, id, title, description, status) ==
    /\ thr[t].pc = "idle"
    /\ title # ""
    /\ LockFree(t)
    /\ IF ~HasTask(svc_tasks, id)
       THEN /\ thr' = [thr EXCEPT ![t] = ThreadIdle("None", None)]
            /\ UNCHANGED <<svc_tasks, now>>
       ELSE IF title # NoStr /\ Strip(title) = ""
       THEN /\ thr' = [thr EXCEPT ![t] = ThreadIdle("ValueError", None)]
            /\ UNCHANGED <<svc_tasks, now>>
       ELSE /\ thr' = [thr EXCEPT ![t] = ThreadIdle("Task", id)]
            /\ \E at \in ClockReads(now) :
                  /\ now' = at
                  /\ svc_tasks' = WriteTask(svc_tasks, id,
                                            UpdatedTask(TaskOf(svc_tasks, id), title,
                                                        description, status, at))
    /\ UNCHANGED <<svc_lock, svc_ids, core_vars>>

\* update_task_status, lines 126-130: the lock and the lookup
update_task_status(t, id, status) ==
    /\ thr[t].pc = "idle"
    /\ LockFree(t)
    /\ IF HasTask(svc_tasks, id)
       THEN /\ svc_lock' = t
            /\ thr' = [thr EXCEPT ![t] =
                          ThreadIn("update_task_status", id, NoStr, NoStr, status, TRUE)]
       ELSE /\ thr' = [thr EXCEPT ![t] = ThreadIdle("None", None)]
            /\ UNCHANGED svc_lock
    /\ UNCHANGED <<svc_tasks, svc_ids, now, core_vars>>

\* update_task_status, lines 132-137
update_task_status_done(t) ==
    /\ thr[t].pc = "locked" /\ thr[t].op = "update_task_status"
    /\ Release
    /\ \E at \in ClockReads(now) :
          /\ svc_tasks' =
                IF HasTask(svc_tasks, thr[t].id)
                THEN WriteTask(svc_tasks, thr[t].id,
                               [TaskOf(svc_tasks, thr[t].id) EXCEPT !.status = thr[t].status,
                                                                    !.updated_at = at])
                ELSE svc_tasks
          /\ now' = at
          /\ thr' = [thr EXCEPT ![t] = ThreadIdle("Task", thr[t].id)]
    /\ UNCHANGED <<svc_ids, core_vars>>

\* delete_task, line 148: the lock
delete_task(t, id) ==
    /\ thr[t].pc = "idle"
    /\ Acquire(t)
    /\ thr' = [thr EXCEPT ![t] = ThreadIn("delete_task", id, NoStr, NoStr, NoStr, FALSE)]
    /\ UNCHANGED <<svc_tasks, svc_ids, now, core_vars>>

\* delete_task, lines 149-155
delete_task_done(t) ==
    /\ thr[t].pc = "locked" /\ thr[t].op = "delete_task"
    /\ Release
    /\ svc_tasks' = Pop(svc_tasks, thr[t].id)
    /\ thr' = [thr EXCEPT ![t] = IF HasTask(svc_tasks, thr[t].id)
                                 THEN ThreadIdle("True", None) ELSE ThreadIdle("False", None)]
    /\ UNCHANGED <<svc_ids, now, core_vars>>

\* get_statistics, lines 326-327: the lock
get_statistics(t) ==
    /\ thr[t].pc = "idle"
    /\ Acquire(t)
    /\ thr' = [thr EXCEPT ![t] = ThreadIn("get_statistics", None, NoStr, NoStr, NoStr, FALSE)]
    /\ UNCHANGED <<svc_tasks, svc_ids, now, core_vars>>

\* get_tasks_by_status, lines 223-229, called by a thread or, in line 328,
\* by get_statistics from inside its "with self._lock" block; in that case
\* the rest of get_statistics (lines 330-357) follows
get_tasks_by_status(t) ==
    /\ \/ thr[t].pc = "idle"
       \/ thr[t].pc = "locked" /\ thr[t].op = "get_statistics"
    /\ LockFree(t)
    /\ LET counts == CountsByStatus(svc_tasks) IN
       IF thr[t].pc = "idle"
       THEN /\ thr' = [thr EXCEPT ![t] = ThreadIdle("counts", counts)]
            /\ UNCHANGED svc_lock
       ELSE /\ thr' = [thr EXCEPT ![t] = ThreadIdle("statistics", Statistics(svc_tasks, counts))]
            /\ Release
    /\ UNCHANGED <<svc_tasks, svc_ids, now, core_vars>>

\* task_update_tool, lines 114-130, with the tool dependencies set: the
\* validation of task_id, then of status, then update_task_status up to its
\* lookup.  ret is the fixed part of the result text the tool returns.
task_update_tool(t, task_id, status) ==
    /\ thr[t].pc = "idle"
    /\ IF UUID(task_id) = None
       THEN /\ thr' = [thr EXCEPT ![t] = ThreadIdle("Error: Invalid task ID format", None)]
            /\ UNCHANGED svc_lock
       ELSE IF Lower(status) \notin TaskStatus
       THEN /\ thr' = [thr EXCEPT ![t] = ThreadIdle("Error: Invalid status", None)]
            /\ UNCHANGED svc_lock
       ELSE /\ LockFree(t)
            /\ IF HasTask(svc_tasks, UUID(task_id))
               THEN /\ svc_lock' = t
                    /\ thr' = [thr EXCEPT ![t] =
                                  ThreadIn("task_update_tool", UUID(task_id), NoStr, NoStr,
                                           Lower(status), TRUE)]
               ELSE /\ thr' = [thr EXCEPT ![t] = ThreadIdle("Error: Task not found", None)]
                    /\ UNCHANGED svc_lock
    /\ UNCHANGED <<svc_tasks, svc_ids, now, core_vars>>

\* the rest of update_task_status (task_service.py lines 132-137) and the
\* result text of line 133 of the tool
task_update_tool_done(t) ==
    /\ thr[t].pc = "locked" /\ thr[t].op = "task_update_tool"
    /\ Release
    /\ \E at \in ClockReads(now) :
          /\ svc_tasks' =
                WriteTask(svc_tasks, thr[t].id,
                          [TaskOf(svc_tasks, thr[t].id) EXCEPT !.status = thr[t].status,
                                                               !.updated_at = at])
          /\ now' = at
          /\ thr' = [thr EXCEPT ![t] = ThreadIdle("Task updated successfully", None)]
    /\ UNCHANGED <<svc_ids, core_vars>>

\* a thread inside a "with self._lock" block goes on: it leaves the block
\* or, in get_statistics, makes the call of line 328
ServiceDone(t) ==
    \/ create_task_done(t)
    \/ update_task_status_done(t)
    \/ delete_task_done(t)
    \/ thr[t].pc = "locked" /\ get_tasks_by_status(t)

\* One caller: creation with titles of every kind, lookup, status change,
\* deletion and the statistics.  A thread inside a call goes on (weak
\* fairness of its steps); nothing obliges a caller to make a call.
NextTasks ==
    \/ \E title \in Titles : create_task(1, title, NoStr)
    \/ create_task_done(1)
    \/ \E id \in TaskIds : get_task(1, id)
    \/ \E id \in TaskIds : update_task_status(1, id, "completed")
    \/ update_task_status_done(1)
    \/ \E id \in TaskIds : delete_task(1, id)
    \/ delete_task_done(1)
    \/ get_statistics(1)
    \/ get_tasks_by_status(1)

SpecTasks == Init /\ [][NextTasks]_vars /\ WF_vars(ServiceDone(1))

\* One caller: tasks with a description, and updates that supply every
\* subset of the three fields, for the first task, beside which others
\* may be stored, and for ids that are not stored.
NextUpdate ==
    \/ create_task(1, "b", " d ")
    \/ create_task_done(1)
    \/ \E id \in {1, MaxTasks + 1}, title \in {NoStr, "  ", " a "},
          description \in {NoStr, ""}, status \in {NoStr, "completed"} :
          update_task(1, id, title, description, status)

SpecUpdate == Init /\ [][NextUpdate]_vars

\* The language model's calls of task_update_tool, with task ids that are
\* stored, not stored and malformed, and statuses that are valid, valid in
\* another case and invalid.
NextTool ==
    \/ create_task(1, "b", NoStr)
    \/ create_task_done(1)
    \/ \E task_id \in ToolTaskIds, status \in ToolStatuses :
          task_update_tool(1, task_id, status)
    \/ task_update_tool_done(1)

SpecTool == Init /\ [][NextTool]_vars

\* Two callers at once: create_task, update_task_status and delete_task.
NextThreads ==
    \/ \E t \in Threads : create_task(t, "b", NoStr)
    \/ \E t \in Threads : create_task_done(t)
    \/ \E t \in Threads, id \in TaskIds, status \in {"in_progress", "completed"} :
          update_task_status(t, id, status)
    \/ \E t \in Threads : update_task_status_done(t)
    \/ \E t \in Threads, id \in TaskIds : delete_task(t, id)
    \/ \E t \in Threads : delete_task_done(t)

SpecThreads == Init /\ [][NextThreads]_vars

(***************************************************************************)
(* Specification.                                                          *)
(***************************************************************************)
Next ==
    \/ \E sid \in {"s1"}, text \in UserTexts : chat(sid, text)
    \/ \E sid \in SessionIds : cleanup_session(sid)
    \/ \E sid \in SessionIds : cleanup_resume(sid)
    \/ \E c \in Conns, sid \in SessionIds : Connect(c, sid)
    \/ \E c \in Conns : ClientDrop(c)
    \/ \E c \in Conns : ReceiveDisconnect(c)
    \/ \E c \in Conns : ClientBadFrame(c)
    \/ \E c \in Conns : EndpointFinally(c)
    \/ \E c \in Conns : ExecStart(c)
    \/ \E c \in Conns : ExecReason(c)
    \/ \E c \in Conns : ExecAct(c)
    \/ \E c \in Conns : ExecFinish(c)

Spec == Init /\ [][Next]_vars

\* Behaviours in which DELETE is also sent for ids that are no longer
\* stored, and in which no client goes away or sends a bad frame.
NextDelete ==
    \/ \E sid \in {"s1"}, text \in UserTexts : chat(sid, text)
    \/ \E sid \in SessionIds : cleanup_session(sid)
    \/ \E sid \in SessionIds : cleanup_resume(sid)
    \/ \E sid \in SessionIds : cleanup_session_not_found(sid)
    \/ \E c \in Conns, sid \in SessionIds : Connect(c, sid)
    \/ \E c \in Conns : ReceiveDisconnect(c)
    \/ \E c \in Conns : EndpointFinally(c)
    \/ \E c \in Conns : ExecStart(c)
    \/ \E c \in Conns : ExecReason(c)
    \/ \E c \in Conns : ExecAct(c)
    \/ \E c \in Conns : ExecFinish(c)

SpecDelete == Init /\ [][NextDelete]_vars

\* Behaviours with one session per connection: connection c attaches to
\* the c-th id.  No DELETE and no bad frame.
IdOf(c) == IF c = 1 THEN "s1" ELSE "s2"

NextIso ==
    \/ \E sid \in SessionIds, text \in UserTexts : chat(sid, text)
    \/ \E c \in Conns : Connect(c, IdOf(c))
    \/ \E c \in Conns : ClientDrop(c)
    \/ \E c \in Conns : ReceiveDisconnect(c)
    \/ \E c \in Conns : EndpointFinally(c)
    \/ \E c \in Conns : ExecStart(c)
    \/ \E c \in Conns : ExecReason(c)
    \/ \E c \in Conns : ExecAct(c)
    \/ \E c \in Conns : ExecFinish(c)

SpecIso == Init /\ [][NextIso]_vars

\* Behaviours of one session whose clients may send pings and stay
\* connected: no client goes away, no DELETE and no bad frame.  The event
\* loop runs every coroutine that can go on, and a call of the language
\* model or of a tool returns or raises: the steps of an execution task
\* are weakly fair.  Nothing obliges a client to connect or to send a
\* frame.
ExecStep(c) == ExecStart(c) \/ ExecReason(c) \/ ExecAct(c) \/ ExecFinish(c)

NextLive ==
    \/ \E sid \in {"s1"}, text \in UserTexts : chat(sid, text)
    \/ \E c \in Conns : Connect(c, "s1")
    \/ \E c \in Conns : ClientPing(c)
    \/ \E c \in Conns : ExecStart(c)
    \/ \E c \in Conns : ExecReason(c)
    \/ \E c \in Conns : ExecAct(c)
    \/ \E c \in Conns : ExecFinish(c)

SpecLive ==
    /\ Init
    /\ [][NextLive]_vars
    /\ \A c \in Conns : WF_vars(ExecStep(c))

(***************************************************************************)
(* The life of one session up to its release, for the properties about     *)
(* what the server does in the end.  One client may attach, ping and go    *)
(* away.  The steps of the server are weakly fair: the event loop runs the *)
(* execution task and the endpoint coroutine whenever they can go on.      *)
(* Nothing obliges a client to connect, to send a frame or to close, and   *)
(* nobody is obliged to send a DELETE.                                     *)
(***************************************************************************)
EndpointStep(c) == ReceiveDisconnect(c) \/ EndpointFinally(c)

NextRelease ==
    \/ \E sid \in {"s1"}, text \in UserTexts : chat(sid, text)
    \/ Connect(1, "s1")
    \/ ClientPing(1)
    \/ ClientDrop(1)
    \/ ReceiveDisconnect(1)
    \/ EndpointFinally(1)
    \/ ExecStart(1)
    \/ ExecReason(1)
    \/ ExecAct(1)
    \/ ExecFinish(1)

SpecRelease ==
    /\ Init
    /\ [][NextRelease]_vars
    /\ WF_vars(ExecStep(1))
    /\ WF_vars(EndpointStep(1))

(***************************************************************************)
(* One session with the bot as its client: POST /chat, then the websocket  *)
(* on which the bot reads and never writes.  The steps of the server and   *)
(* of the bot's consumer are weakly fair: both run on asyncio event loops  *)
(* that resume every coroutine that can go on.  Somebody else may send a   *)
(* DELETE for the session; nothing obliges anybody to.                     *)
(***************************************************************************)
NextBot ==
    \/ \E text \in UserTexts : chat("s1", text)
    \/ Connect(1, "s1")
    \/ ws_connect(1)
    \/ BotReceive(1)
    \/ cleanup_session("s1")
    \/ cleanup_resume("s1")
    \/ ReceiveDisconnect(1)
    \/ EndpointFinally(1)
    \/ ExecStart(1)
    \/ ExecReason(1)
    \/ ExecAct(1)
    \/ ExecFinish(1)

SpecBot ==
    /\ Init
    /\ [][NextBot]_vars
    /\ WF_vars(ExecStep(1))
    /\ WF_vars(EndpointStep(1))
    /\ WF_vars(BotReceive(1))
    /\ WF_vars(cleanup_resume("s1"))

(***************************************************************************)
(* Vocabulary of the properties.                                           *)
(***************************************************************************)
RunLog(c) == log[<<"run", c>>]
Status(sid) == session_data[sid].status

\* the execution of run c is in progress: execute_graph has begun and has
\* neither returned nor been cancelled
InProgress(c) == task_pc[c] \in {"llm", "act", "final"}

Kinds(l) == [i \in 1..Len(l) |-> l[i].kind]
CountKind(l, k) == Cardinality({i \in 1..Len(l) : l[i].kind = k})

\* the frames a step appends to the log of run c
NewFrames(c) == SubSeq(RunLog(c)', Len(RunLog(c)) + 1, Len(RunLog(c)'))

\* socket c has been sent an error frame
Rejected(c) ==
    \E s \in Senders : \E i \in 1..Len(log[s]) :
        log[s][i].to = c /\ log[s][i].ok /\ log[s][i].kind = "error"

\* a send of run c has failed on a dropped connection
SendFailed(c) == \E i \in 1..Len(RunLog(c)) : RunLog(c)[i].to # None /\ ~RunLog(c)[i].ok

\* the connection dropped during the execution of run c: a frame of run c
\* failed on the socket that had taken its execution_started
DropSeenBySend(c) ==
    \E i, j \in 1..Len(RunLog(c)) :
        /\ i < j
        /\ RunLog(c)[i].kind = "execution_started" /\ RunLog(c)[i].ok
        /\ RunLog(c)[j].to = RunLog(c)[i].to /\ ~RunLog(c)[j].ok

(***************************************************************************)
(* C1.  For every session id at most one execution of the agent graph is   *)
(* in progress at any time.                                                *)
(* Fails: websocket_endpoint creates an execution task for every           *)
(* connection that finds the session in the store.                         *)
(***************************************************************************)
C1_OneExecutionPerSession ==
    \A sid \in SessionIds :
        Cardinality({c \in Conns : ep_sid[c] = sid /\ InProgress(c)}) <= 1

(***************************************************************************)
(* C2.  When two subscribers attach to the same session, one of them is    *)
(* the session's subscriber and the other has received an explicit         *)
(* rejection: two endpoints never both sit in the receive loop of one      *)
(* session without one of them having been sent an error frame.            *)
(* Fails: connect() overwrites the registered socket and the displaced     *)
(* subscriber is told nothing.                                             *)
(***************************************************************************)
C2_SecondAttachRejected ==
    \A c1, c2 \in Conns :
        (c1 # c2 /\ ep_sid[c1] = ep_sid[c2]
              /\ ep_pc[c1] = "receive" /\ ep_pc[c2] = "receive")
            => (Rejected(c1) \/ Rejected(c2))

(***************************************************************************)
(* C3.  While a session is stored its status only moves                    *)
(* prepared -> running -> (completed or error), and it enters running at   *)
(* most once.                                                              *)
(* Fails: a second attach runs execute_graph again, which sets running     *)
(* whatever the status was.                                                *)
(***************************************************************************)
StatusMoves ==
    {<<"none", "prepared">>, <<"prepared", "running">>,
     <<"running", "completed">>, <<"running", "error">>}

C3_StatusLifecycle ==
    [][\A sid \in SessionIds :
          sid \in sessions' =>
             /\ Status(sid)' = Status(sid) \/ <<Status(sid), Status(sid)'>> \in StatusMoves
             /\ Cardinality({c \in Conns : /\ ep_sid'[c] = sid
                                           /\ CountKind(RunLog(c)', "execution_started") > 0}) <= 1
      ]_vars

(***************************************************************************)
(* C4.  Once the server has seen the subscriber of a run disconnect while   *)
(* the run was in progress (WebSocketDisconnect in the receive loop, or a  *)
(* failed send to the socket that had received execution_started), the run *)
(* emits no final_result and no execution_completed any more, and when the *)
(* endpoint has returned the session is no longer stored, so it is not     *)
(* left in status running.                                                 *)
(* Fails: after a failed send the run is not cancelled (C6); when its      *)
(* stream ends it sets the status completed and emits                      *)
(* execution_completed.                                                    *)
(***************************************************************************)
C4_NoResultAfterDisconnect ==
    [][\A c \in Conns :
          /\ (ep_exit[c] = "disconnect" \/ DropSeenBySend(c)) =>
                \A i \in 1..Len(NewFrames(c)) :
                    NewFrames(c)[i].kind \notin {"final_result", "execution_completed"}
          /\ (ep_exit'[c] = "disconnect" /\ ep_pc'[c] = "done") => ep_sid'[c] \notin sessions'
      ]_vars

(***************************************************************************)
(* C5.  cleanup_session on a running session cancels the executions in     *)
(* progress for it in the same step, and after the deletion no run of      *)
(* that session begins a language-model call or a tool invocation.         *)
(* Fails: the only cancellation in cleanup_session is guarded by a 'task'  *)
(* key that no code ever stores in the session dict.                       *)
(***************************************************************************)
C5_DeleteCancelsExecution ==
    [][\A c \in Conns :
          /\ (ep_sid[c] \in cleaned' \ cleaned /\ InProgress(c)) => task_pc'[c] = "cancelled"
          /\ (ep_sid[c] \in cleaned /\ task_pc[c] # "none") => calls'[c] = calls[c]
      ]_vars

(***************************************************************************)
(* C6.  After a send of a run has failed because the connection dropped    *)
(* during the execution, that run begins no further language-model call    *)
(* or tool invocation, and the step in which a send failed emits nothing   *)
(* after the failed frame (no error frame reports the failure).            *)
(* Fails: send_message calls disconnect, whose cancellation is guarded by  *)
(* the same 'task' key; the run goes on.                                   *)
(***************************************************************************)
C6_SendFailureCancels ==
    [][\A c \in Conns :
          /\ DropSeenBySend(c) => calls'[c] = calls[c]
          /\ (~SendFailed(c) /\ SendFailed(c)') =>
                LET last == RunLog(c)'[Len(RunLog(c)')] IN last.to # None /\ ~last.ok
      ]_vars

(***************************************************************************)
(* C7.  The events a run emits come in the order execution_started (once,  *)
(* first), state_update events, final_result, execution_completed (last):  *)
(* every event but the first follows the one the order allows before it.   *)
(* Fails: execution_completed follows a state_update directly, because no  *)
(* final_result is emitted (C8).                                           *)
(***************************************************************************)
FollowsInOrder(k, i) ==
    CASE k[i] = "execution_started"   -> i = 1
      [] k[i] = "state_update"        -> i > 1 /\ k[i - 1] \in {"execution_started", "state_update"}
      [] k[i] = "final_result"        -> i > 1 /\ k[i - 1] \in {"execution_started", "state_update"}
      [] k[i] = "execution_completed" -> i > 1 /\ k[i - 1] = "final_result"
      [] OTHER                        -> i = Len(k)

C7_EventOrder ==
    \A c \in Conns :
        LET k == Kinds(RunLog(c)) IN \A i \in 1..Len(k) : FollowsInOrder(k, i)

(***************************************************************************)
(* C8.  A run that has emitted execution_completed has emitted exactly one *)
(* final_result, right before it, carrying the content of the last         *)
(* assistant message of the conversation.                                  *)
(* Fails: the chunks of graph.astream are keyed by node name, so           *)
(* final_state.get("messages", []) is empty and the broadcast is skipped.  *)
(***************************************************************************)
LastAssistantContent(msgs) ==
    LET I == {i \in 1..Len(msgs) : msgs[i].type = "AIMessage"} IN
    msgs[CHOOSE i \in I : \A j \in I : j <= i].content

C8_FinalResult ==
    \A c \in Conns :
        LET l == RunLog(c) IN
        CountKind(l, "execution_completed") > 0 =>
            /\ CountKind(l, "final_result") = 1
            /\ l[Len(l) - 1].kind = "final_result"
            /\ l[Len(l) - 1].content = LastAssistantContent(messages[c])

(***************************************************************************)
(* C9.  When a step of a run raises, the run emits exactly one error       *)
(* event, the session's status is error from then on, and no               *)
(* state_update, final_result or execution_completed is emitted for that   *)
(* session afterwards.                                                     *)
(* Fails: a second run of the same session (C1) keeps emitting and sets    *)
(* the status again.                                                       *)
(***************************************************************************)
\* run c ended in the except clause of execute_graph
Raised(c) ==
    /\ Len(RunLog(c)) > 0
    /\ RunLog(c)[Len(RunLog(c))].kind = "error"
    /\ RunLog(c)[Len(RunLog(c))].content # "Session not found"

C9_ErrorIsFinal ==
    [][\A c \in Conns :
          Raised(c) =>
             /\ CountKind(RunLog(c), "error") = 1
             /\ Status(ep_sid[c]) = "error"
             /\ \A d \in Conns :
                   ep_sid[d] = ep_sid[c] =>
                      \A i \in 1..Len(NewFrames(d)) :
                          NewFrames(d)[i].kind \notin
                              {"state_update", "final_result", "execution_completed"}
      ]_vars

(***************************************************************************)
(* C10.  An ACT step in which a tool invocation raises still answers       *)
(* every invocation of the turn, in order, the raising one with an error   *)
(* text; the task store keeps the effect of every invocation that          *)
(* succeeded, before and after the failing one; the run goes on to the     *)
(* next REASON step; no error event is emitted and the status of the       *)
(* session does not change.                                                *)
(***************************************************************************)
RaisesOnInvoke(tc) == tc.name \in TOOLS /\ ~tc.valid

CreatesTask(tc) ==
    tc.name = "task_create_tool" /\ tc.valid /\ Strip(FirstSentence(Strip(tc.text))) # ""

C10_ToolErrorContained ==
    [][\A c \in Conns :
          (task_pc[c] = "act" /\ calls'[c] # calls[c]) =>
             LET tcs == messages[c][Len(messages[c])].tool_calls
                 new == SubSeq(messages'[c], Len(messages[c]) + 1, Len(messages'[c]))
             IN /\ Len(new) = Len(tcs)
                /\ \A k \in 1..Len(tcs) :
                      /\ new[k].type = "ToolMessage"
                      /\ new[k].tool_call_id = tcs[k].id
                      /\ RaisesOnInvoke(tcs[k]) <=>
                            SubSeq(new[k].content, 1, 15) = "Error executing"
                /\ Len(tasks') = Len(tasks)
                                 + Cardinality({k \in 1..Len(tcs) : CreatesTask(tcs[k])})
                /\ task_pc'[c] = "llm"
                /\ Status(ep_sid[c])' = Status(ep_sid[c])
                /\ Kinds(NewFrames(c)) = <<"state_update">>
      ]_vars

\* a run has gone through an ACT step whose second invocation raised and
\* whose fourth invocation created a task, and waits for the next REASON step
C10_Witness ==
    \E c \in Conns :
        /\ task_pc[c] = "llm"
        /\ Len(messages[c]) = 7
        /\ messages[c][4].content = "Error executing task_create_tool: validation error"
        /\ messages[c][7].content = "Tasks: Write report"
        /\ Len(tasks) = 2
        /\ Status(ep_sid[c]) = "running"
        /\ CountKind(RunLog(c), "error") = 0

(***************************************************************************)
(* C11.  In an ACT step, an invocation that names a tool the registry does *)
(* not hold is answered by a tool message with the text "Error: Tool       *)
(* '<name>' not found" under the invocation's call identifier; the step    *)
(* raises nothing: no error event is emitted and the run goes on.          *)
(***************************************************************************)
C11_UnknownToolAnswered ==
    [][\A c \in Conns :
          (task_pc[c] = "act" /\ calls'[c] # calls[c]) =>
             LET tcs == messages[c][Len(messages[c])].tool_calls
                 new == SubSeq(messages'[c], Len(messages[c]) + 1, Len(messages'[c]))
             IN /\ \A k \in 1..Len(tcs) :
                      tcs[k].name \notin TOOLS =>
                         /\ k <= Len(new)
                         /\ new[k].tool_call_id = tcs[k].id
                         /\ new[k].content = "Error: Tool '" \o tcs[k].name \o "' not found"
                /\ CountKind(RunLog(c)', "error") = CountKind(RunLog(c), "error")
                /\ InProgress(c)'
      ]_vars

\* the third invocation of a turn named the unregistered tool doc_search
\* and its answer is in the conversation
C11_Witness ==
    \E c \in Conns :
        /\ Len(messages[c]) >= 5
        /\ messages[c][2].tool_calls[3].name = "doc_search"
        /\ messages[c][5] = ToolMessage("Error: Tool 'doc_search' not found",
                                        messages[c][2].tool_calls[3].id)
        /\ InProgress(c)

(***************************************************************************)
(* C12.  Whenever a run is about to take a REASON step, every assistant    *)
(* message with tool invocations in its conversation is followed by        *)
(* exactly one tool message per invocation, in the order of the            *)
(* invocations and with their call identifiers.                            *)
(***************************************************************************)
Answered(msgs, i) ==
    LET tcs == msgs[i].tool_calls IN
    /\ i + Len(tcs) <= Len(msgs)
    /\ \A k \in 1..Len(tcs) :
          /\ msgs[i + k].type = "ToolMessage"
          /\ msgs[i + k].tool_call_id = tcs[k].id
    /\ i + Len(tcs) < Len(msgs) => msgs[i + Len(tcs) + 1].type # "ToolMessage"

C12_ToolResultsMatchCalls ==
    \A c \in Conns :
        task_pc[c] = "llm" =>
            \A i \in 1..Len(messages[c]) :
                messages[c][i].type = "AIMessage" => Answered(messages[c], i)

\* a run waits for its REASON step after an ACT step that answered five
\* invocations
C12_Witness ==
    \E c \in Conns :
        /\ task_pc[c] = "llm"
        /\ Len(messages[c]) = 7
        /\ Len(messages[c][2].tool_calls) = 5
        /\ [k \in 1..5 |-> messages[c][2 + k].tool_call_id]
              = [k \in 1..5 |-> messages[c][2].tool_calls[k].id]

(***************************************************************************)
(* C13.  A run whose every REASON step asked for tools, up to the limit of *)
(* its rounds, ends as a normal completion: status completed, no error     *)
(* event, and a final assistant message without tool invocations (the      *)
(* truncation notice) closing the conversation.                            *)
(* Fails: no round limit is configured anywhere; the run goes on until     *)
(* astream raises GraphRecursionError, which execute_graph reports as an   *)
(* error event with status error, and no notice is appended.               *)
(***************************************************************************)
\* run c asked for tools in every REASON step until its steps were used up
AskedUpToLimit(c) == 2 * rounds[c] - 1 >= RecursionLimit

C13_RoundLimitTruncates ==
    \A c \in Conns :
        (AskedUpToLimit(c) /\ task_pc[c] = "done") =>
            /\ Status(ep_sid[c]) = "completed"
            /\ CountKind(RunLog(c), "error") = 0
            /\ messages[c][Len(messages[c])].type = "AIMessage"
            /\ messages[c][Len(messages[c])].tool_calls = <<>>

(***************************************************************************)
(* C14.  As long as a session that POST /chat created is stored and no     *)
(* websocket has attached to it, the status query answers prepared and     *)
(* connected = false, and no execution exists for it: no task, no          *)
(* language-model call.                                                    *)
(***************************************************************************)
NotYetAttached(sid) ==
    sid \in sessions /\ \A c \in Conns : ep_sid[c] = sid => ep_pc[c] = "idle"

C14_PreparedUntilAttach ==
    \A sid \in SessionIds :
        NotYetAttached(sid) =>
            /\ get_session_status(sid) =
                   [found |-> TRUE, status |-> "prepared", connected |-> FALSE]
            /\ \A c \in Conns : ep_sid[c] = sid => (task_pc[c] = "none" /\ calls[c] = 0)

\* a session created from a padded message, before anyone attaches
C14_Witness ==
    \E sid \in SessionIds :
        /\ NotYetAttached(sid)
        /\ session_data[sid].initial_state = <<HumanMessage("List my pending tasks")>>

(***************************************************************************)
(* C15.  While the connection of a subscriber is dropped and its session   *)
(* is stored with a status that is not terminal, no step other than a      *)
(* DELETE removes the session from the store, so that a later attach finds *)
(* it.                                                                     *)
(* Fails: the endpoint's finally clause, and send_message after a failed   *)
(* send, call disconnect, which deletes the session together with the      *)
(* connection; the next attach is answered "Session not found".            *)
(***************************************************************************)
Terminal == {"completed", "error"}

C15_SessionSurvivesDrop ==
    [][\A c \in Conns :
          LET sid == ep_sid[c] IN
          (/\ ws[c] = "dropped"
           /\ sid \in sessions
           /\ Status(sid) \notin Terminal
           /\ deletes'[sid] = deletes[sid]
           /\ cleanup_pc'[sid] = cleanup_pc[sid]) => sid \in sessions'
      ]_vars

(***************************************************************************)
(* C16.  The step in which a websocket attaches to a stored session whose  *)
(* status is completed or error delivers to that websocket a frame with    *)
(* the final outcome, a final_result or an error.                          *)
(* Fails: nothing stores the outcome of a run; the endpoint sends nothing  *)
(* on attach and creates a new execution of the graph instead.             *)
(***************************************************************************)
\* the frames a step delivers to socket c
DeliveredNow(c) ==
    {f \in UNION {{log'[s][i] : i \in (Len(log[s]) + 1)..Len(log'[s])} : s \in Senders} :
        f.to = c /\ f.ok}

C16_TerminalReplay ==
    [][\A c \in Conns :
          (/\ ep_pc[c] = "idle" /\ ep_pc'[c] # "idle"
           /\ ep_sid'[c] \in sessions
           /\ Status(ep_sid'[c]) \in Terminal)
          => \E f \in DeliveredNow(c) : f.kind \in {"final_result", "error"}
      ]_vars

(***************************************************************************)
(* C17.  The first DELETE for a stored session is answered cleaned_up =    *)
(* true; a second DELETE for the same id is answered cleaned_up = false    *)
(* and changes neither the session store nor the connection registry.      *)
(* Fails: when the registered connection is removed while cleanup_session  *)
(* awaits websocket.close(), its del of the registry entry raises KeyError *)
(* and the first DELETE is answered HTTP 500.                              *)
(***************************************************************************)
\* the reply a step records for a DELETE of sid
Replied(sid) == deletes'[sid][Len(deletes'[sid])]

C17_DeleteTwice ==
    [][\A sid \in SessionIds :
          deletes'[sid] # deletes[sid] =>
             /\ (Len(deletes[sid]) = 0 /\ (sid \in sessions \/ cleanup_pc[sid] = "closing"))
                   => Replied(sid) = "true"
             /\ Len(deletes[sid]) = 1
                   => /\ Replied(sid) = "false"
                      /\ sessions' = sessions
                      /\ active_connections' = active_connections
      ]_vars

(***************************************************************************)
(* C18.  Once a DELETE has been answered cleaned_up = true for an id, the  *)
(* status query for the id answers not-found; the only socket that can be  *)
(* registered under the id is one of a later attach that is being answered *)
(* "Session not found"; and the socket that cleanup_session closed is not  *)
(* registered under the id and is delivered no further frame.              *)
(***************************************************************************)
CleanedUp(sid) == \E i \in 1..Len(deletes[sid]) : deletes[sid][i] = "true"

\* connection c is being turned away: its endpoint has sent "Session not
\* found" and has not yet run its finally clause
BeingRejected(c) ==
    IF c = None THEN TRUE ELSE ep_exit[c] = "not_found" /\ ep_pc[c] = "finally"

NotFoundFrame(f) == f.kind = "error" /\ f.content = "Session not found"

C19_UnknownIdNotFound ==
    [][\A sid \in SessionIds :
          (Status(sid) # "none" /\ sid \notin sessions) =>
             /\ ~get_session_status(sid).found
             /\ sid \notin sessions'
             /\ (deletes'[sid] # deletes[sid] /\ cleanup_pc[sid] = "idle") =>
                    /\ Replied(sid) = "false"
                    /\ active_connections' = active_connections
                    /\ task_pc' = task_pc /\ ws' = ws
             /\ \A c \in Conns :
                   /\ (ep_pc[c] = "idle" /\ ep_pc'[c] # "idle" /\ ep_sid'[c] = sid) =>
                          /\ \E f \in DeliveredNow(c) : NotFoundFrame(f)
                          /\ task_pc'[c] = "none"
                          /\ ep_exit'[c] = "not_found"
                   /\ (ep_sid[c] = sid /\ ep_exit[c] = "not_found"
                          /\ ep_pc[c] # "done" /\ ep_pc'[c] = "done") =>
                          /\ active_connections'[sid] = None
                          /\ task_pc'[c] = "none"
                   /\ (ep_sid[c] = sid /\ task_pc[c] = "created"
                          /\ task_pc'[c] \notin {"created", "cancelled"}) =>
                          /\ task_pc'[c] = "done"
                          /\ Len(NewFrames(c)) = 1 /\ NotFoundFrame(NewFrames(c)[1])
                          /\ calls'[c] = calls[c]
      ]_vars

\* for one deleted id: an execution task found no session, a later attach
\* was turned away and has returned, and a DELETE was answered false
C19_Witness ==
    \E sid \in SessionIds :
        /\ sid \notin sessions
        /\ deletes[sid] # <<>> /\ deletes[sid][Len(deletes[sid])] = "false"
        /\ \E c \in Conns : ep_sid[c] = sid /\ ep_exit[c] = "not_found" /\ ep_pc[c] = "done"
        /\ \E d \in Conns : /\ ep_sid[d] = sid /\ Len(RunLog(d)) = 1
                             /\ NotFoundFrame(RunLog(d)[1])

(***************************************************************************)
(* C20.  With one session per connection: every frame that is delivered    *)
(* goes to the socket that attached under the frame's own session id; and  *)
(* a step that puts one session into status error changes, of any other    *)
(* session, neither the status, nor its place in the store and the         *)
(* registry, nor the run (position, conversation, emitted events).         *)
(***************************************************************************)
C20_SessionsIsolated ==
    [][/\ \A s \in Senders : \A i \in 1..Len(log'[s]) :
             log'[s][i].ok => ep_sid'[log'[s][i].to] = log'[s][i].sid
       /\ \A a, b \in SessionIds :
             (a # b /\ Status(a) # "error" /\ Status(a)' = "error") =>
                /\ Status(b)' = Status(b)
                /\ (b \in sessions') = (b \in sessions)
                /\ active_connections'[b] = active_connections[b]
                /\ \A c \in Conns :
                      (ep_pc[c] # "idle" /\ ep_sid[c] = b) =>
                         /\ RunLog(c)' = RunLog(c)
                         /\ task_pc'[c] = task_pc[c]
                         /\ messages'[c] = messages[c]
      ]_vars

\* the model call of session s1 failed and the run of session s2 has
\* completed, every frame of each run delivered to its own socket
C20_Witness ==
    /\ Status("s1") = "error" /\ Status("s2") = "completed"
    /\ Kinds(RunLog(1)) = <<"execution_started", "error">>
    /\ Kinds(RunLog(2)) = <<"execution_started", "state_update", "execution_completed">>
    /\ \A c \in Conns : \A i \in 1..Len(RunLog(c)) :
          RunLog(c)[i].ok /\ RunLog(c)[i].to = c /\ RunLog(c)[i].sid = IdOf(c)

(***************************************************************************)
(* C21.  A POST /chat whose message is empty or consists only of           *)
(* whitespace is answered with status 400, and no session is stored for    *)
(* the request.                                                            *)
(* Fails: UserMessage requires min_length = 1, so an empty message is      *)
(* rejected by request validation with status 422 before chat() runs;      *)
(* only a message of blanks reaches the check that answers 400.            *)
(***************************************************************************)
\* a step in which a POST /chat that drew sid is answered
Posting(sid) == posted'[sid] # posted[sid]

C21_BlankMessageIs400 ==
    [][\A sid \in SessionIds :
          (Posting(sid) /\ Strip(posted'[sid].text) = "") =>
             /\ posted'[sid].code = 400
             /\ sid \notin sessions'
             /\ session_data'[sid] = session_data[sid]
      ]_vars

(***************************************************************************)
(* C22.  A POST /chat with a non-empty message is answered 200 with a body *)
(* that carries the new session id and status "started", and the session   *)
(* with that id is then stored with status prepared.                       *)
(* Fails: chat() builds ChatResponse without its required field            *)
(* message_id; the ValidationError is caught by except Exception and the   *)
(* request is answered 500, after prepare_session has stored the session.  *)
(***************************************************************************)
C22_ChatStarted ==
    [][\A sid \in SessionIds :
          (Posting(sid) /\ Strip(posted'[sid].text) # "") =>
             /\ posted'[sid].code = 200
             /\ posted'[sid].session_id = sid
             /\ posted'[sid].status = "started"
             /\ sid \in sessions'
             /\ Status(sid)' = "prepared"
      ]_vars

(***************************************************************************)
(* C23.  While its client stays connected, an execution that has been     *)
(* started reaches its terminal event (execution_completed or error)       *)
(* whatever the client sends, and so also when it never sends a frame; and *)
(* a ping frame that an endpoint receives while its socket is the one      *)
(* registered for the session is answered with exactly one pong frame,     *)
(* delivered on that socket.                                               *)
(***************************************************************************)
\* run c has emitted its terminal event
TerminalEvent(c) ==
    /\ task_pc[c] = "done"
    /\ RunLog(c) # <<>>
    /\ RunLog(c)[Len(RunLog(c))].kind \in {"execution_completed", "error"}

\* the frames a step appends to the log of endpoint c
NewEndpointFrames(c) ==
    SubSeq(log'[<<"ep", c>>], Len(log[<<"ep", c>>]) + 1, Len(log'[<<"ep", c>>]))

C23_NoStallAndPong ==
    /\ \A c \in Conns : (task_pc[c] = "created") ~> TerminalEvent(c)
    /\ [][\A c \in Conns :
             (pings'[c] > pings[c] /\ active_connections[ep_sid[c]] = c) =>
                /\ Len(NewEndpointFrames(c)) = 1
                /\ NewEndpointFrames(c)[1].kind = "pong"
                /\ NewEndpointFrames(c)[1].to = c
                /\ NewEndpointFrames(c)[1].ok
         ]_vars

\* the run of connection 1 has completed without a frame from any client,
\* and then the registered connection 2 has been answered a ping
C23_Witness ==
    /\ pings[1] = 0
    /\ TerminalEvent(1)
    /\ pings[2] = 1
    /\ \E i \in 1..Len(log[<<"ep", 2>>]) :
          /\ log[<<"ep", 2>>][i].kind = "pong"
          /\ log[<<"ep", 2>>][i].to = 2
          /\ log[<<"ep", 2>>][i].ok

(***************************************************************************)
(* C24.  The mutations of the task store are serialized under every        *)
(* interleaving of concurrent create_task, update_task_status and          *)
(* delete_task calls: at most one thread is inside a locked block, and it  *)
(* holds the lock; every create_task that passed the title check returns   *)
(* a task and adds exactly one task to the store, leaving the others as    *)
(* they were (so N concurrent calls leave N tasks and raise no error);     *)
(* every update_task_status that found its task returns it with the task   *)
(* stored under the status the call wrote; a delete_task removes at most   *)
(* the task it names; and the status of a stored task changes only in the  *)
(* step of an update_task_status on that task, to the value written by     *)
(* that call.                                                              *)
(***************************************************************************)
\* thread t leaves the locked block of operation op in this step
Leaves(t, op) == thr[t].pc = "locked" /\ thr[t].op = op /\ thr'[t].pc = "idle"

\* the stored tasks with an id other than id
Others(store, id) == SelectSeq(store, LAMBDA x : x.id # id)

C24_MutationsSerialized ==
    /\ [](/\ Cardinality({t \in Threads : thr[t].pc = "locked"}) <= 1
          /\ \A t \in Threads : thr[t].pc = "locked" => svc_lock = t)
    /\ [][/\ \A t \in Threads :
               /\ Leaves(t, "create_task") =>
                     /\ thr'[t].ret = "Task"
                     /\ Len(svc_tasks') = Len(svc_tasks) + 1
                     /\ SubSeq(svc_tasks', 1, Len(svc_tasks)) = svc_tasks
                     /\ svc_tasks'[Len(svc_tasks')].id = thr'[t].val
                     /\ ~HasTask(svc_tasks, thr'[t].val)
               /\ Leaves(t, "update_task_status") =>
                     /\ thr'[t].ret = "Task"
                     /\ HasTask(svc_tasks', thr[t].id)
                     /\ TaskOf(svc_tasks', thr[t].id).status = thr[t].status
                     /\ Others(svc_tasks', thr[t].id) = Others(svc_tasks, thr[t].id)
               /\ Leaves(t, "delete_task") =>
                     /\ thr'[t].ret = (IF HasTask(svc_tasks, thr[t].id) THEN "True" ELSE "False")
                     /\ svc_tasks' = Others(svc_tasks, thr[t].id)
          /\ \A id \in TaskIds :
               (/\ HasTask(svc_tasks, id) /\ HasTask(svc_tasks', id)
                /\ TaskOf(svc_tasks', id).status # TaskOf(svc_tasks, id).status) =>
                  \E t \in Threads : /\ Leaves(t, "update_task_status")
                                     /\ thr[t].id = id
                                     /\ TaskOf(svc_tasks', id).status = thr[t].status
         ]_vars

\* two tasks have been created; task 1 has been set in_progress by one
\* call, and thread 1 is now inside a second update_task_status of task 1,
\* about to write completed, while thread 2 has come back from its call
C24_Witness ==
    /\ Len(svc_tasks) = 2
    /\ HasTask(svc_tasks, 1)
    /\ TaskOf(svc_tasks, 1).status = "in_progress"
    /\ thr[1].pc = "locked" /\ thr[1].op = "update_task_status"
    /\ thr[1].id = 1 /\ thr[1].status = "completed"
    /\ svc_lock = 1
    /\ thr[2].pc = "idle" /\ thr[2].ret = "Task" /\ thr[2].val = 1

(***************************************************************************)
(* C25.  Once the status of a session is completed or error, the session   *)
(* is eventually released: it is no longer in the session store and no     *)
(* websocket is registered under its id.                                   *)
(* Fails: execute_graph sets the status and sends its last frames, and     *)
(* nothing more (lines 190-206); the endpoint stays in its receive loop    *)
(* (lines 303-320).  Only manager.disconnect releases a session, and it    *)
(* runs when the client goes away, when a send fails or on DELETE.  With a *)
(* client that stays connected the session and its registration remain     *)
(* for ever.                                                               *)
(***************************************************************************)
Released(sid) == sid \notin sessions /\ active_connections[sid] = None

C25_ReleasedAfterTerminal ==
    \A sid \in SessionIds : (Status(sid) \in Terminal) ~> Released(sid)

(***************************************************************************)
(* C26.  A stored session to which no websocket has attached does not stay *)
(* so for ever: eventually a websocket attaches or the session is removed  *)
(* from the session store.                                                 *)
(* Fails: prepare_session (lines 128-142) stores created_at and starts no  *)
(* timer; created_at is only reported by get_session_status, and no code   *)
(* of the server removes a session on its own; a session nobody attaches   *)
(* to and nobody deletes stays prepared for ever.                          *)
(***************************************************************************)
C26_IdleSessionRemoved ==
    \A sid \in SessionIds : NotYetAttached(sid) ~> ~NotYetAttached(sid)

(***************************************************************************)
(* C27.  A call of get_statistics returns, and its result describes the    *)
(* store: total_tasks is the number of stored tasks, the count under       *)
(* completed is the number of completed tasks, oldest_task and newest_task *)
(* are None on an empty store and otherwise name a task created no later,  *)
(* and a task created no earlier, than every stored task.                  *)
(* Fails: get_statistics calls get_tasks_by_status (line 328) inside its   *)
(* own "with self._lock" block, and get_tasks_by_status acquires the same  *)
(* lock (line 224).  threading.Lock is not reentrant: the call blocks for  *)
(* ever, on every store, and the lock stays taken.                         *)
(***************************************************************************)
InStatistics(t) == thr[t].pc = "locked" /\ thr[t].op = "get_statistics"

DescribesStore(r, store) ==
    /\ r.total_tasks = Len(store)
    /\ r.status_counts["completed"] =
           Cardinality({i \in 1..Len(store) : store[i].status = "completed"})
    /\ IF store = <<>>
       THEN r.oldest_task = NoSummary /\ r.newest_task = NoSummary
       ELSE /\ \E i \in 1..Len(store) :
                  /\ r.oldest_task = TaskSummary(store[i])
                  /\ \A j \in 1..Len(store) : store[i].created_at <= store[j].created_at
            /\ \E i \in 1..Len(store) :
                  /\ r.newest_task = TaskSummary(store[i])
                  /\ \A j \in 1..Len(store) : store[j].created_at <= store[i].created_at

C27_StatisticsDescribeStore ==
    \A t \in {1} :
        InStatistics(t) ~> (/\ thr[t].pc = "idle"
                            /\ thr[t].ret = "statistics"
                            /\ DescribesStore(thr[t].val, svc_tasks))

(***************************************************************************)
(* C28.  A call of create_task whose title is empty or consists of blanks  *)
(* raises ValueError and leaves the task store as it was: no task is       *)
(* added.                                                                  *)
(***************************************************************************)
Blank(title) == Strip(title) = ""

C28_BlankTitleRejected ==
    [][\A t \in Threads :
          /\ \A title \in Titles :
                (Blank(title) /\ create_task(t, title, NoStr)) =>
                    /\ svc_tasks' = svc_tasks
                    /\ (thr'[t].pc = "idle" => thr'[t].ret = "ValueError")
          /\ (Leaves(t, "create_task") /\ Blank(thr[t].title)) =>
                    /\ svc_tasks' = svc_tasks
                    /\ thr'[t].ret = "ValueError"
      ]_vars

\* a call has raised ValueError while a task is stored; with one caller
\* that creates, reads, sets statuses and deletes, only create_task with a
\* blank title raises it
C28_Witness ==
    /\ thr[1].pc = "idle" /\ thr[1].ret = "ValueError"
    /\ Len(svc_tasks) = 1
    /\ svc_tasks[1].title = "a"

(***************************************************************************)
(* C29.  A call of update_task for a stored id leaves the number and the   *)
(* order of the stored tasks, every other task, and the id and created_at  *)
(* of the task as they were, and changes the title, the description and    *)
(* the status of the task only when the update supplies them; updated_at   *)
(* may change.  A call for an id that is not stored returns None and       *)
(* changes nothing.                                                        *)
(***************************************************************************)
UpdateArgs == {NoStr, "  ", " a "} \X {NoStr, ""} \X {NoStr, "completed"}

C29_UpdateChangesSuppliedOnly ==
    [][\A t \in {1}, id \in TaskIds, a \in UpdateArgs :
          update_task(t, id, a[1], a[2], a[3]) =>
              IF HasTask(svc_tasks, id)
              THEN LET old == TaskOf(svc_tasks, id)
                       new == TaskOf(svc_tasks', id)
                   IN /\ Len(svc_tasks') = Len(svc_tasks)
                      /\ \A i \in 1..Len(svc_tasks) :
                            /\ svc_tasks'[i].id = svc_tasks[i].id
                            /\ svc_tasks[i].id # id => svc_tasks'[i] = svc_tasks[i]
                      /\ new.created_at = old.created_at
                      /\ a[1] = NoStr => new.title = old.title
                      /\ a[2] = NoStr => new.description = old.description
                      /\ a[3] = NoStr => new.status = old.status
                      /\ thr'[t].ret \in {"Task", "ValueError"}
                      /\ thr'[t].ret = "ValueError" => svc_tasks' = svc_tasks
              ELSE /\ thr'[t].ret = "None"
                   /\ svc_tasks' = svc_tasks
      ]_vars

\* two tasks are stored; updates have given the first a new title and a
\* later updated_at, and none has supplied its description or its status
C29_Witness ==
    /\ Len(svc_tasks) = 2
    /\ thr[1].pc = "idle" /\ thr[1].ret = "Task" /\ thr[1].val = 1
    /\ svc_tasks[1].title = "a"
    /\ svc_tasks[1].description = "d"
    /\ svc_tasks[1].status = "pending"
    /\ svc_tasks[1].updated_at > svc_tasks[1].created_at
    /\ svc_tasks[2].title = "b"

(***************************************************************************)
(* C30.  delete_task returns True when the id is stored and False when it  *)
(* is not.  When it returns True the id is no longer in the store, the     *)
(* other tasks are as they were, and the id stays out of the store, so     *)
(* that every later get_task for it returns None: get_task returns None    *)
(* exactly for the ids that are not stored.  When it returns False the     *)
(* store is unchanged.                                                     *)
(***************************************************************************)
C30_DeleteRemoves ==
    [][\A id \in TaskIds :
          /\ (Leaves(1, "delete_task") /\ thr[1].id = id) =>
                IF HasTask(svc_tasks, id)
                THEN /\ thr'[1].ret = "True"
                     /\ ~HasTask(svc_tasks', id)
                     /\ svc_tasks' = Others(svc_tasks, id)
                ELSE /\ thr'[1].ret = "False"
                     /\ svc_tasks' = svc_tasks
          /\ (id <= svc_ids /\ ~HasTask(svc_tasks, id)) => ~HasTask(svc_tasks', id)
          /\ get_task(1, id) =>
                /\ thr'[1].ret = (IF HasTask(svc_tasks, id) THEN "Task" ELSE "None")
                /\ thr'[1].ret = "Task" => thr'[1].val = id
      ]_vars

\* the first of two stored tasks has been deleted and the call has
\* returned True
C30_Witness ==
    /\ thr[1].pc = "idle" /\ thr[1].ret = "True"
    /\ svc_ids = 2
    /\ Len(svc_tasks) = 1 /\ svc_tasks[1].id = 2

(***************************************************************************)
(* C31.  On every store the service can reach, get_task_count() is the     *)
(* number of stored tasks, get_task_count(status) is the entry of          *)
(* get_tasks_by_status() for each of the four statuses, and the four       *)
(* entries add up to get_task_count().                                     *)
(***************************************************************************)
C31_CountsAgree ==
    LET counts == CountsByStatus(svc_tasks) IN
    /\ get_task_count(svc_tasks, NoStr) =
           Cardinality({svc_tasks[i].id : i \in 1..Len(svc_tasks)})
    /\ \A st \in TaskStatus : get_task_count(svc_tasks, st) = counts[st]
    /\ counts["pending"] + counts["in_progress"] + counts["completed"] + counts["cancelled"]
           = get_task_count(svc_tasks, NoStr)

\* two tasks are stored under different statuses
C31_Witness ==
    /\ Len(svc_tasks) = 2
    /\ svc_tasks[1].status = "completed"
    /\ svc_tasks[2].status = "in_progress"
    /\ get_task_count(svc_tasks, "completed") = 1

(***************************************************************************)
(* C32.  A call of task_update_tool whose status is none of pending,       *)
(* in_progress, completed, cancelled returns the text that reports         *)
(* "Invalid status", for every task_id argument, and changes no task.      *)
(* Fails: the tool validates task_id first (lines 115-118); for a task_id  *)
(* that is no UUID, such as "test-id", it returns "Invalid task ID format" *)
(* and never looks at the status.  It also lowers the status before it     *)
(* validates it (line 122), so that "COMPLETED" is accepted and written.   *)
(***************************************************************************)
C32_InvalidStatusReported ==
    [][\A task_id \in ToolTaskIds, status \in ToolStatuses :
          (status \notin TaskStatus /\ task_update_tool(1, task_id, status)) =>
              /\ thr'[1] = ThreadIdle("Error: Invalid status", None)
              /\ svc_tasks' = svc_tasks
      ]_vars

(***************************************************************************)
(* C33.  A REASON step that produced an assistant message leaves the run   *)
(* before ACT exactly when that message carries a tool invocation, and at  *)
(* the end of the graph exactly when it carries none; an ACT step that ran *)
(* the tools leaves the run before REASON.  (A run that a cancellation     *)
(* reached in the same step is cancelled and goes nowhere.)                *)
(***************************************************************************)
Produced(c) == messages'[c][Len(messages'[c])]

C33_Routing ==
    [][\A c \in Conns :
          /\ (task_pc[c] = "llm" /\ messages'[c] # messages[c] /\ task_pc'[c] # "cancelled") =>
                /\ Produced(c).type = "AIMessage"
                /\ task_pc'[c] = "act" <=> Produced(c).tool_calls # <<>>
                /\ task_pc'[c] = "final" <=> Produced(c).tool_calls = <<>>
          /\ (task_pc[c] = "act" /\ messages'[c] # messages[c] /\ task_pc'[c] # "cancelled") =>
                task_pc'[c] = "llm"
      ]_vars

\* a run is before its second REASON step: its first asked for tools, ACT
\* has answered them
C33_Witness ==
    \E c \in Conns :
        /\ task_pc[c] = "llm"
        /\ Len(messages[c]) > 2
        /\ messages[c][2].tool_calls # <<>>
        /\ messages[c][Len(messages[c])].type = "ToolMessage"

(***************************************************************************)
(* C34.  During an execution the messages of the run only grow: after      *)
(* every step the old sequence is a prefix of the new one; a REASON step   *)
(* that goes on to ACT or to the end has appended exactly one assistant    *)
(* message, and an ACT step appends nothing but tool-result messages.      *)
(***************************************************************************)
Appended(c) == SubSeq(messages'[c], Len(messages[c]) + 1, Len(messages'[c]))

C34_AppendOnly ==
    [][\A c \in Conns :
          /\ Len(messages'[c]) >= Len(messages[c])
          /\ SubSeq(messages'[c], 1, Len(messages[c])) = messages[c]
          /\ (task_pc[c] = "llm" /\ task_pc'[c] \in {"act", "final"}) =>
                /\ Len(Appended(c)) = 1
                /\ Appended(c)[1].type = "AIMessage"
          /\ task_pc[c] = "act" =>
                \A i \in 1..Len(Appended(c)) : Appended(c)[i].type = "ToolMessage"
      ]_vars

\* a run has made a REASON step that asked for tools, the ACT step that
\* answered each of them, and the REASON step that ended it
C34_Witness ==
    \E c \in Conns :
        /\ task_pc[c] = "final"
        /\ Len(messages[c]) = 3 + Len(messages[c][2].tool_calls)
        /\ Len(messages[c][2].tool_calls) > 1
        /\ messages[c][Len(messages[c])].type = "AIMessage"

(***************************************************************************)
(* C35.  Every state_update frame carries the messages that the step it    *)
(* reports has appended, by type and content; after an ACT step in which   *)
(* an invocation raised, these include the tool message that begins with   *)
(* "Error executing".                                                      *)
(* Fails: the compiled graph streams one dict per step keyed by the name   *)
(* of the node, {"llm": {"messages": [...]}}; execute_graph reads          *)
(* state.get("messages", []) from it (line 185), which is the empty list.  *)
(* Every state_update carries "messages": [].                              *)
(***************************************************************************)
C35_StateUpdateCarriesMessages ==
    [][\A c \in Conns :
          \A i \in 1..Len(NewFrames(c)) :
              NewFrames(c)[i].kind = "state_update" =>
                  NewFrames(c)[i].messages = RenderMessages(Appended(c))
      ]_vars

(***************************************************************************)
(* C36.  A step in which frames are handed to send_message while no        *)
(* websocket is registered for their session changes neither the session   *)
(* store nor the connection registry nor any socket, and raises nothing:   *)
(* the frames reach no socket, and a run that emitted a frame other than   *)
(* an error does not end in error by it.                                   *)
(***************************************************************************)
NewOf(s) == SubSeq(log'[s], Len(log[s]) + 1, Len(log'[s]))

Dropping ==
    /\ \E s \in Senders : NewOf(s) # <<>>
    /\ \A s \in Senders : \A i \in 1..Len(NewOf(s)) : NewOf(s)[i].to = None

C36_UnsubscribedEventsDropped ==
    [][Dropping =>
          /\ sessions' = sessions
          /\ active_connections' = active_connections
          /\ ws' = ws
          /\ \A s \in Senders : \A i \in 1..Len(NewOf(s)) : ~NewOf(s)[i].ok
          /\ \A c \in Conns :
                (/\ NewFrames(c) # <<>>
                 /\ \A i \in 1..Len(NewFrames(c)) : NewFrames(c)[i].kind # "error") =>
                    (Status(ep_sid[c])' = "error" => Status(ep_sid[c]) = "error")
      ]_vars

\* a run has gone on after its connection was unregistered: its
\* execution_completed was handed to send_message with no websocket
\* registered
C36_Witness ==
    \E c \in Conns : \E i \in 1..Len(RunLog(c)) :
        /\ RunLog(c)[i].kind = "execution_completed"
        /\ RunLog(c)[i].to = None
        /\ active_connections[ep_sid[c]] = None

(***************************************************************************)
(* C37.  Every call of the TaskService that has taken the lock leaves its  *)
(* "with self._lock" block, by return or by an exception, and so releases  *)
(* the lock: no caller holds it for ever.                                  *)
(* Fails: a caller inside get_statistics holds the lock and asks for it    *)
(* again in get_tasks_by_status (lines 328 and 224); the lock is a         *)
(* threading.Lock, the second acquire never succeeds, and the lock is      *)
(* never released.  Every other operation takes the lock once and leaves.  *)
(***************************************************************************)
C37_NoCallBlocks ==
    \A t \in Threads : (svc_lock = t) ~> (svc_lock # t)

(***************************************************************************)
(* C38.  When websocket_endpoint has returned for a connection, the        *)
(* execution task it created, if any, has ended or has been cancelled.     *)
(* Fails: on the path through "except Exception" (lines 333-335) the       *)
(* endpoint goes to the finally clause without cancelling its task, and    *)
(* manager.disconnect cancels only a task stored under the key "task",     *)
(* which nothing stores.  The task runs on, for a session that is no       *)
(* longer in the store, with no endpoint and no registered connection.     *)
(***************************************************************************)
C38_NoOrphanExecution ==
    \A c \in Conns : ep_pc[c] = "done" => (task_pc[c] = "none" \/ TaskDone(task_pc[c]))

=========================================================================
